---- MODULE Spec2Model ----
(***************************************************************************)
(* A model of httpseek's block-aligned caching transport                   *)
(* (CachedBlockTransport.RoundTrip over a MemoryBlockCache), of the        *)
(* singleflight group it uses to share origin fetches, and of a            *)
(* Range-capable origin holding a fixed resource.                          *)
(***************************************************************************)
EXTENDS Integers, Sequences, FiniteSets, TLC

(* ------------------------------ bounds -------------------------------- *)

\* t.BlockSize, scaled down from DefaultBlockSize (512).
BS == 2
\* Length of the origin's resource: three blocks, the last one short.
N == 5
\* Largest byte position a caller names in a Range header (beyond N - 1).
MaxPos == 6
\* Number of goroutines calling RoundTrip on the one transport.
NumProcs == 2
\* RoundTrip calls started in one behaviour.
MaxCalls == 2

Procs == 1..NumProcs
Pos == 0..MaxPos

(* ------------------------------ origin -------------------------------- *)

\* The resource: byte i has the value i, so every position is recognisable.
Resource == [i \in 1..N |-> i - 1]

\* Go's s[lo:hi] on a byte sequence (0-based, hi exclusive).
Slice(s, lo, hi) == SubSeq(s, lo + 1, hi)

Min(a, b) == IF a < b THEN a ELSE b

\* Range header values: absent, unparsable, "bytes=s-" and "bytes=s-e".
NoRange == [kind |-> "none", s |-> 0, e |-> 0]
BadRange == [kind |-> "bad", s |-> 0, e |-> 0]
OpenRange(s) == [kind |-> "open", s |-> s, e |-> 0]
FullRange(s, e) == [kind |-> "full", s |-> s, e |-> e]

\* "bytes=s-e" with s <= e, and with e < s in the one form "bytes=s-0".
Headers ==
    {NoRange, BadRange} \cup {OpenRange(s) : s \in {0, N - 1}}
        \cup {FullRange(q[1], q[2]) :
                q \in {x \in Pos \X Pos : x[1] <= x[2] \/ x[2] = 0}}

Get(h) == [method |-> "GET", hdr |-> h]

\* Requests a lone caller may issue: any GET, and one non-GET carrying a Range.
Requests ==
    {Get(h) : h \in Headers} \cup {[method |-> "POST", hdr |-> FullRange(0, 1)]}

\* Requests of concurrent callers: whole blocks of the resource, one range
\* inside a block, one non-GET.
Blocks == 0..((N - 1) \div BS)

SharedRequests ==
    {Get(FullRange(q[1] * BS, Min((q[2] + 1) * BS, N) - 1)) :
        q \in {x \in Blocks \X Blocks : x[1] <= x[2]}}
        \cup {Get(FullRange(1, 1)), [method |-> "POST", hdr |-> FullRange(0, 1)]}

\* A response of the wrapped transport: (resp, err), with a body whose read
\* may fail part way.
Answer(err, status, body, readErr) ==
    [err |-> err, status |-> status, body |-> body, readErr |-> readErr]

\* What a Range-capable origin answers when nothing goes wrong: 206 with the
\* requested bytes clipped to the resource (the short body RoundTrip's split
\* loop provides for), 416 for a range that starts at or beyond the end, 200
\* with everything when there is no usable Range.
OriginServe(r) ==
    LET h == r.hdr IN
    IF r.method # "GET" THEN Answer("", 200, <<>>, FALSE)
    ELSE IF h.kind = "full" /\ h.s <= h.e /\ h.s < N
        THEN Answer("", 206, Slice(Resource, h.s, Min(h.e, N - 1) + 1), FALSE)
    ELSE IF h.kind = "open" /\ h.s < N
        THEN Answer("", 206, Slice(Resource, h.s, N), FALSE)
    ELSE IF h.kind \in {"full", "open"}
        THEN Answer("", 416, <<>>, FALSE)
    ELSE Answer("", 200, Resource, FALSE)

\* The origin of the repository's tests, which rejects with 416 every range
\* that ends beyond the resource instead of clipping it.
OriginStrict(r) ==
    IF r.method = "GET" /\ r.hdr.kind = "full" /\ r.hdr.e >= N
    THEN Answer("", 416, <<>>, FALSE)
    ELSE OriginServe(r)

\* The failures the wrapped transport can produce instead.
NetError == Answer("simulated network error", 0, <<>>, FALSE)
ServerError == Answer("", 500, <<>>, FALSE)
BrokenBody(a) == Answer("", a.status, a.body, TRUE)

Faulty(a) == a \in {NetError, ServerError} \/ a.readErr

\* Every outcome of t.Transport.RoundTrip(r).
OriginAnswers(r) ==
    {OriginServe(r), OriginStrict(r), NetError, ServerError,
     BrokenBody(OriginServe(r))}

\* The resource changes: the bytes of version v. Version 1 is Resource.
Shift == 10
AtVersion(body, v) == [i \in 1..Len(body) |-> body[i] + (v - 1) * Shift]
PreconditionFailed == Answer("", 412, <<>>, FALSE)

\* The outcomes when the request carries If-Match for version c (0: no
\* validator) and the origin holds version v: 412 when they differ.
Replies(r, c, v) ==
    IF c # 0 /\ c # v THEN {PreconditionFailed, NetError}
    ELSE {[a EXCEPT !.body = AtVersion(@, v)] : a \in OriginAnswers(r)}

(* --------------------------- RoundTrip's arithmetic -------------------- *)

\* fmt.Sscanf(rangeHdr, "bytes=%d-%d", &start, &end): the number of values
\* scanned and whether it reported an error (input exhausted before the
\* second %d, or no match at all).
Sscanf(h) ==
    CASE h.kind = "full" -> [n |-> 2, err |-> FALSE, start |-> h.s, end |-> h.e]
      [] h.kind = "open" -> [n |-> 1, err |-> TRUE, start |-> h.s, end |-> 0]
      [] OTHER -> [n |-> 0, err |-> TRUE, start |-> 0, end |-> 0]

\* The requests RoundTrip hands to the wrapped transport as they are.
PassThroughMutNonGet(r) ==
    r.hdr.kind = "none" \/ Sscanf(r.hdr).err \/ Sscanf(r.hdr).n < 1

PassThrough(r) ==
    \/ r.method # "GET"
    \/ r.hdr.kind = "none"
    \/ Sscanf(r.hdr).err \/ Sscanf(r.hdr).n < 1

Start(r) == Sscanf(r.hdr).start

End(r) ==
    LET p == Sscanf(r.hdr) IN
    IF p.n = 1 \/ p.end < p.start THEN p.start + BS - 1 ELSE p.end

\* Block numbers of blockStart and blockEnd.
FirstNeeded(r) == Start(r) \div BS
LastNeeded(r) == End(r) \div BS
Needed(r) == FirstNeeded(r)..LastNeeded(r)

\* The aligned Range the closure sends for the blocks in missing.
AlignedRange(missing) ==
    FullRange(missing[1] * BS, (missing[Len(missing)] + 1) * BS - 1)

\* The piece of body stored for the i-th (0-based) entry of missing.
Piece(body, i) ==
    LET offset == i * BS
        end == Min(offset + BS, Len(body))
    IN Slice(body, offset, end)

\* Whether the split loop runs its i-th iteration.
SplitRuns(missing, body, i) == i < Len(missing) /\ i * BS < Len(body)

\* The error the closure returns for an answer of the wrapped transport.
FetchErrMutAnyStatus(a) ==
    IF a.err # "" THEN a.err
    ELSE IF a.readErr THEN "unexpected EOF"
    ELSE ""

FetchErr(a) ==
    IF a.err # "" THEN a.err
    ELSE IF a.status = 412
        THEN "unexpected HTTP status 412 Precondition Failed"
    ELSE IF a.status # 206 /\ a.status # 200 THEN "unexpected HTTP status"
    ELSE IF a.readErr THEN "unexpected EOF"
    ELSE ""

\* "Slice to requested sub-range".
SubRange(r, combined) ==
    LET offset0 == Start(r) - FirstNeeded(r) * BS
        offset == IF offset0 < 0 THEN 0 ELSE offset0
        length0 == End(r) - Start(r) + 1
        length1 == IF offset + length0 > Len(combined)
                   THEN Len(combined) - offset ELSE length0
        length == IF length1 < 0 THEN 0 ELSE length1
    IN Slice(combined, offset, offset + length)

\* The synthetic response, or the error, RoundTrip returns.
Synthetic(r, combined) == Answer("", 206, SubRange(r, combined), FALSE)
Failed(err) == Answer(err, 0, <<>>, FALSE)

NoAnswer == Answer("none", 0, <<>>, FALSE)
NoRequest == [method |-> "", hdr |-> NoRange]

(* ------------------------------- state -------------------------------- *)

VARIABLES
    cacheNil,   \* t.Cache == nil
    cache,      \* MemoryBlockCache.m: block number -> bytes
    group,      \* singleflight: key (first missing block) -> leading caller
    wire,       \* requests the wrapped transport has received, in order
    ncalls,     \* RoundTrip calls started
    pc,         \* where each caller is in RoundTrip
    req,        \* the caller's request
    blk,        \* loop variable of the block loops
    missing,    \* the caller's list of missing blocks
    resp,       \* the wrapped transport's answer to this call
    doErr,      \* err returned by group.Do
    combined,   \* the body being rebuilt
    res,        \* what RoundTrip returned
    prev,       \* what the previous call returned, when this one repeats it
    sent,       \* requests this call handed to the wrapped transport
    gets,       \* Cache.Get calls of this call
    puts,       \* Cache.Put calls of this call
    cond,       \* the version in the If-Match header of the caller's request, 0 for none
    version     \* the version of the resource the origin holds

\* The seekable view over the resource and the goroutines calling it.
VARIABLES
    kind,       \* the type of the view: "HTTPFile", "Reader", "" before open
    meta,       \* HTTPFile.meta / ReaderAtHTTP.size, recorded at open
    off,        \* the cursor, HTTPFile.off / Reader.off
    mu,         \* Reader.mu: its holder, 0 when free
    nops,       \* calls made on the view so far
    issued,     \* the Range headers of the GETs the view has sent
    fpc,        \* where each goroutine is in its call
    call,       \* the call each goroutine is making
    at,         \* the cursor loaded by the call / the offset of its ReadAt
    buf,        \* the caller's buffer p
    rn,         \* the returned count (Read, ReadAt) or position (Seek)
    rerr,       \* the returned error, "" for nil
    got         \* the response the call's GET received

view == <<kind, meta, off, mu, nops, issued, fpc, call, at, buf, rn, rerr, got>>

transport == <<cacheNil, cache, group, wire, ncalls, pc, req, blk, missing,
               resp, doErr, combined, res, prev, sent, gets, puts, cond,
               version>>

\* What New did: the HEAD it sent and what it returned.
VARIABLES
    head        \* the call of New / Open: client given, client used, answer, error

opening == <<head>>

\* A function of the package applied to arguments.
VARIABLES
    calc        \* the function, its arguments and, once applied, its result

pure == <<calc>>

\* A MemoryBlockCache used on its own, as a record of
\*   mem      MemoryBlockCache.m: block number -> bytes
\*   log      the Put, Delete and Clear calls made on it, in order
\*   found    the last Get: its block, its results, the calls before it
VARIABLES memory

\* A MmapBlockCache used by several goroutines, as a record of
\*   data     MmapBlockCache.data, the bytes of the mapping
\*   valid    MmapBlockCache.valid, the blocks whose bit is set
\*   lock     MmapBlockCache.mu: the goroutine holding it, 0 when free
\*   job      the Put, Delete or Clear each goroutine is inside
\*   slice    the slice Get returned to each goroutine
\*   seen     the bytes the goroutine last read through that slice
\*   started  Put, Delete, Clear and Close calls started
\*   unmaps   unix.Munmap calls made by Close
\*   died     the calls that ended in a run-time panic
VARIABLES mapping

stores == <<memory, mapping>>

\* The contexts of the requests handed to RoundTrip.
VARIABLES
    cancelled   \* whether the context of the caller's request is cancelled

ctx == <<cancelled>>

\* A UffdHTTPReader, its fault loop and the goroutine using it, as a
\* record of
\*   doneCh      whether r.done is closed
\*   registered  whether the range is registered with the userfaultfd
\*   ufd         whether the userfaultfd descriptor is open
\*   region      whether r.full is mapped
\*   pages       the pages of the mapping filled by a Copy
\*   fault       the page whose fault waits for the fault loop, -1 for none
\*   upos        r.pos
\*   closing     the statement of Close the caller is at, "" outside Close
\*   closes      Close calls started
\*   frees       releases made: of the descriptor, of the mapping
\*   panicked    whether the program has panicked
\*   serving     the page whose fault handlePageFault is serving, -1 for none
\*   pbuf        buf of handlePageFault once it is filled, <<>> before
\*   frames      the bytes of the pages filled by a Copy
\*   asked       the pages handlePageFault called File.ReadAt for
\*   fatal       the call whose error ended the program in log.Fatalf
\*   late        whether a Copy was made with the descriptor closed or the
\*               region unmapped
\*   ret         what Read was called with and what it returned
VARIABLES paged

aside == <<opening, pure, stores, ctx, paged>>

vars == <<transport, view, aside>>

\* Metadata (ETag, LastModified, Length); the zero value.
Metadata(etag, lastMod, length) ==
    [ETag |-> etag, LastModified |-> lastMod, Length |-> length]
NoMetadata == Metadata("", "", 0)

NoCall == [op |-> "", len |-> 0, offset |-> 0, whence |-> 0]
NoResponse == [err |-> "", status |-> 0, hdr |-> <<>>, body |-> <<>>,
               bodyErr |-> ""]
\* MmapBlockCache.numBlocks, and the block numbers used with a
\* MemoryBlockCache.
NumSlots == 2
\* Put, Delete and Clear calls made on one cache in one behaviour.
MaxCacheOps == 3
\* Close calls made on one UffdHTTPReader.
MaxCloses == 2
Slots == 0..(NumSlots - 1)
NoGet == [block |-> 0 - 1, v |-> <<>>, ok |-> FALSE, after |-> <<>>]
Idle == [name |-> "", block |-> 0, src |-> <<>>, i |-> 0]
NoSlice == [block |-> 0 - 1, was |-> <<>>, news |-> {}]
NotRead == <<>>
NoCalc == [fn |-> "", args |-> <<>>, applied |-> FALSE, out |-> <<>>]
NoHead == [entry |-> "", given |-> "", client |-> "", sent |-> <<>>,
           resp |-> <<>>, err |-> ""]

shared == <<cacheNil, cache, group, wire, ncalls>>

\* MemoryBlockCache.Get / Put
Has(c, b) == b \in DOMAIN c
Put(c, b, v) == [x \in DOMAIN c \cup {b} |-> IF x = b THEN v ELSE c[x]]
EmptyCache == [x \in {} |-> <<>>]

\* Everything but the arguments of calc.
Constructed ==
    /\ cacheNil \in BOOLEAN
    /\ cache = EmptyCache
    /\ group = [x \in {} |-> 0]
    /\ wire = <<>>
    /\ ncalls = 0
    /\ pc = [p \in Procs |-> "idle"]
    /\ req = [p \in Procs |-> NoRequest]
    /\ blk = [p \in Procs |-> 0]
    /\ missing = [p \in Procs |-> <<>>]
    /\ resp = [p \in Procs |-> NoAnswer]
    /\ doErr = [p \in Procs |-> ""]
    /\ combined = [p \in Procs |-> <<>>]
    /\ res = [p \in Procs |-> NoAnswer]
    /\ prev = [p \in Procs |-> NoAnswer]
    /\ sent = [p \in Procs |-> <<>>]
    /\ gets = [p \in Procs |-> 0]
    /\ puts = [p \in Procs |-> 0]
    /\ cond = [p \in Procs |-> 0]
    /\ version = 1
    /\ kind = ""
    /\ meta = NoMetadata
    /\ off = 0
    /\ mu = 0
    /\ nops = 0
    /\ issued = [p \in Procs |-> <<>>]
    /\ fpc = [p \in Procs |-> "idle"]
    /\ call = [p \in Procs |-> NoCall]
    /\ at = [p \in Procs |-> 0]
    /\ buf = [p \in Procs |-> <<>>]
    /\ rn = [p \in Procs |-> 0]
    /\ rerr = [p \in Procs |-> ""]
    /\ got = [p \in Procs |-> NoResponse]
    /\ head = NoHead
    /\ memory = [mem |-> EmptyCache, log |-> <<>>, found |-> NoGet]
    /\ mapping = [data |-> [i \in 1..(NumSlots * BS) |-> 0],
                  valid |-> {},
                  lock |-> 0,
                  job |-> [p \in Procs |-> Idle],
                  slice |-> [p \in Procs |-> NoSlice],
                  seen |-> [p \in Procs |-> NotRead],
                  started |-> 0,
                  unmaps |-> 0,
                  died |-> {}]
    /\ cancelled = [p \in Procs |-> FALSE]
    /\ paged = [doneCh |-> FALSE, registered |-> TRUE, ufd |-> TRUE,
                region |-> TRUE, pages |-> {}, fault |-> 0 - 1, upos |-> 0,
                closing |-> "", closes |-> 0,
                frees |-> [ufd |-> 0, region |-> 0], panicked |-> FALSE,
                serving |-> 0 - 1, pbuf |-> <<>>, frames |-> <<>>,
                asked |-> {}, fatal |-> "", late |-> FALSE,
                ret |-> [len |-> 0, from |-> 0, n |-> 0, err |-> ""]]

Init == Constructed /\ calc = NoCalc

(* ------------------------------ actions ------------------------------- *)

\* A caller enters RoundTrip with request r (lines 76-105).
\* with the If-Match of version c, when c is not 0.
Arrive(p, r, again, c, limit) ==
    /\ pc[p] \in {"idle", "done"}
    /\ ncalls < limit
    /\ cond' = [cond EXCEPT ![p] = c]
    /\ ncalls' = ncalls + 1
    /\ req' = [req EXCEPT ![p] = r]
    /\ prev' = [prev EXCEPT ![p] = IF again THEN res[p] ELSE NoAnswer]
    /\ res' = [res EXCEPT ![p] = NoAnswer]
    /\ resp' = [resp EXCEPT ![p] = NoAnswer]
    /\ doErr' = [doErr EXCEPT ![p] = ""]
    /\ missing' = [missing EXCEPT ![p] = <<>>]
    /\ combined' = [combined EXCEPT ![p] = <<>>]
    /\ sent' = [sent EXCEPT ![p] = <<>>]
    /\ gets' = [gets EXCEPT ![p] = 0]
    /\ puts' = [puts EXCEPT ![p] = 0]
    /\ IF PassThrough(r)
       THEN pc' = [pc EXCEPT ![p] = "pass"] /\ blk' = [blk EXCEPT ![p] = 0]
       ELSE /\ pc' = [pc EXCEPT ![p] = "scan"]
            /\ blk' = [blk EXCEPT ![p] = FirstNeeded(r)]
    /\ UNCHANGED <<cacheNil, cache, group, wire>>
    /\ UNCHANGED <<view, aside, version>>

\* A caller whose request has no validator.
Enter(p, r, again) == Arrive(p, r, again, 0, MaxCalls)

\* The caller issues a request.
Call(p, R) == \E r \in R : Enter(p, r, FALSE)

\* The caller issues the request of its previous, finished call once more.
Repeat(p) == pc[p] = "done" /\ Enter(p, req[p], TRUE)

\* return t.Transport.RoundTrip(req) (lines 85-98).
Forward(p) ==
    /\ pc[p] = "pass"
    /\ \E a \in Replies(req[p], cond[p], version) :
        /\ resp' = [resp EXCEPT ![p] = a]
        /\ res' = [res EXCEPT ![p] = a]
    /\ wire' = Append(wire, req[p])
    /\ sent' = [sent EXCEPT ![p] = Append(@, req[p])]
    /\ pc' = [pc EXCEPT ![p] = "done"]
    /\ UNCHANGED <<cacheNil, cache, group, ncalls, req, blk, missing, doErr,
                   combined, prev, gets, puts>>
    /\ UNCHANGED <<view, aside, cond, version>>

\* One iteration of the loop that collects the missing blocks (lines 108-117).
Scan(p) ==
    /\ pc[p] = "scan"
    /\ LET b == blk[p]
           miss == IF cacheNil \/ ~Has(cache, b)
                   THEN Append(missing[p], b) ELSE missing[p]
       IN /\ missing' = [missing EXCEPT ![p] = miss]
          /\ gets' = [gets EXCEPT ![p] = IF cacheNil THEN @ ELSE @ + 1]
          /\ IF b < LastNeeded(req[p])
             THEN /\ blk' = [blk EXCEPT ![p] = b + 1]
                  /\ UNCHANGED pc
             ELSE IF miss # <<>>
             THEN /\ pc' = [pc EXCEPT ![p] = "do"]
                  /\ blk' = [blk EXCEPT ![p] = 0]
             ELSE /\ pc' = [pc EXCEPT ![p] = "rebuild"]
                  /\ blk' = [blk EXCEPT ![p] = FirstNeeded(req[p])]
    /\ UNCHANGED <<shared, req, resp, doErr, combined, res, prev, sent, puts>>
    /\ UNCHANGED <<view, aside, cond, version>>

\* key of the caller's group.Do (line 123).
Key(p) == missing[p][1]

\* Whether group.Do finds a call in flight for the key.
InFlightMutNever(g, k) == FALSE

InFlight(g, k) == k \in DOMAIN g

\* group.Do(key, ...): join the call in flight, or register and lead
\* (line 125).
Do(p) ==
    /\ pc[p] = "do"
    /\ IF InFlight(group, Key(p))
       THEN /\ pc' = [pc EXCEPT ![p] = "wait"]
            /\ UNCHANGED group
       ELSE /\ pc' = [pc EXCEPT ![p] = "fetch"]
            /\ group' = [k \in DOMAIN group \cup {Key(p)} |->
                            IF k = Key(p) THEN p ELSE group[k]]
    /\ UNCHANGED <<cacheNil, cache, wire, ncalls, req, blk, missing, resp,
                   doErr, combined, res, prev, sent, gets, puts>>
    /\ UNCHANGED <<view, aside, cond, version>>

\* The wrapped transport's outcomes for a request that carries the
\* context of the caller that leads (req.Clone(req.Context()), line 129):
\* once that context is cancelled the transport may give up with its error.
Canceled == Answer("context canceled", 0, <<>>, FALSE)

Outcomes(r, c, v, gone) ==
    Replies(r, c, v) \cup (IF gone THEN {Canceled} ELSE {})

\* An origin that ignores Range, like the wrapped transport of
\* TestCachedBlockTransport_Non206ResponseIsNotCached: 200 with the whole
\* resource, whatever the request.
PlainServe(v) == Answer("", 200, AtVersion(Resource, v), FALSE)

\* The outcomes of a request to that origin: the 200, a 416, or one of the
\* wrapped transport's failures.
PlainOutcomes(r, c, v, gone) ==
    {PlainServe(v), BrokenBody(PlainServe(v)), NetError, ServerError,
     Answer("", 416, <<>>, FALSE)}

\* The outcomes of the origin a transport wraps: one that honours Range, or
\* the one that answers 200 with the whole resource.
OriginOutcomes(origin, r, c, v, gone) ==
    IF origin = "plain" THEN PlainOutcomes(r, c, v, gone)
    ELSE Outcomes(r, c, v, gone)

\* The leader's origin request and the reading of its body (lines 126-149),
\* the wrapped transport being origin.
FetchVia(p, origin) ==
    /\ pc[p] = "fetch"
    /\ LET newReq == [method |-> req[p].method,
                      hdr |-> AlignedRange(missing[p])]
       IN /\ wire' = Append(wire, newReq)
          /\ sent' = [sent EXCEPT ![p] = Append(@, newReq)]
          /\ \E a \in OriginOutcomes(origin, newReq, cond[p], version, cancelled[p]) :
                /\ resp' = [resp EXCEPT ![p] = a]
                /\ doErr' = [doErr EXCEPT ![p] = FetchErr(a)]
                /\ IF FetchErr(a) = "" /\ SplitRuns(missing[p], a.body, 0)
                   THEN pc' = [pc EXCEPT ![p] = "put"]
                   ELSE pc' = [pc EXCEPT ![p] = "finish"]
    /\ blk' = [blk EXCEPT ![p] = 0]
    /\ UNCHANGED <<cacheNil, cache, group, ncalls, req, missing, combined,
                   res, prev, gets, puts>>
    /\ UNCHANGED <<view, aside, cond, version>>

\* The fetch from a Range-capable origin.
Fetch(p) == FetchVia(p, "ranges")

\* A block after Put(block, src): the bytes copied, the remainder zero.
Padded(src) == [i \in 1..BS |-> IF i <= Len(src) THEN src[i] ELSE 0]

\* MmapBlockCache.Put as the transport sees it, the cache made by
\* NewMmapBlockCache for the blocks of the resource: nothing for a block
\* outside the mapping, else the slot filled with v and zeros, which is what
\* Get returns from then on.
MmapPut(c, b, v) == IF b \notin Blocks THEN c ELSE Put(c, b, Padded(v))

\* t.Cache.Put of the cache the transport was given.
CachePut(store, c, b, v) ==
    IF store = "mmap" THEN MmapPut(c, b, v) ELSE Put(c, b, v)

\* One iteration of "Split and populate cache" (lines 152-164), t.Cache.Put
\* being that of store.
StoreVia(p, store) ==
    /\ pc[p] = "put"
    /\ LET i == blk[p] IN
        /\ IF cacheNil
           THEN UNCHANGED <<cache, puts>>
           ELSE /\ cache' = CachePut(store, cache, missing[p][i + 1],
                                     Piece(resp[p].body, i))
                /\ puts' = [puts EXCEPT ![p] = @ + 1]
        /\ blk' = [blk EXCEPT ![p] = i + 1]
        /\ IF SplitRuns(missing[p], resp[p].body, i + 1)
           THEN UNCHANGED pc
           ELSE pc' = [pc EXCEPT ![p] = "finish"]
    /\ UNCHANGED <<cacheNil, group, wire, ncalls, req, missing, resp, doErr,
                   combined, res, prev, sent, gets>>
    /\ UNCHANGED <<view, aside, cond, version>>

\* The split loop over a MemoryBlockCache.
Store(p) == StoreVia(p, "memory")

WaitersMutNone(p) == {}

WaitersMutOnSuccess(p) ==
    IF doErr[p] = "" THEN {q \in Procs : pc[q] = "wait" /\ Key(q) = Key(p)}
    ELSE {}

\* Callers blocked in group.Do on the leader's key.
Waiters(p) == {q \in Procs : pc[q] = "wait" /\ Key(q) = Key(p)}

\* The closure returns: the key leaves the group, the leader and its waiters
\* get the closure's err, and each either returns it or goes on to rebuild
\* (lines 165-170).
Finish(p) ==
    /\ pc[p] = "finish"
    /\ LET out == Waiters(p) \cup {p}
           err == doErr[p]
       IN /\ group' = [k \in DOMAIN group \ {Key(p)} |-> group[k]]
          /\ doErr' = [q \in Procs |-> IF q \in out THEN err ELSE doErr[q]]
          /\ pc' = [q \in Procs |->
                      IF q \notin out THEN pc[q]
                      ELSE IF err # "" THEN "done" ELSE "rebuild"]
          /\ res' = [q \in Procs |->
                      IF q \in out /\ err # "" THEN Failed(err) ELSE res[q]]
          /\ blk' = [q \in Procs |->
                      IF q \in out THEN FirstNeeded(req[q]) ELSE blk[q]]
    /\ UNCHANGED <<cacheNil, cache, wire, ncalls, req, missing, resp,
                   combined, prev, sent, gets, puts>>
    /\ UNCHANGED <<view, aside, cond, version>>

\* One iteration of "Rebuild combined body", and after the last one the
\* slicing and the synthetic response (lines 172-210).
Rebuild(p) ==
    /\ pc[p] = "rebuild"
    /\ LET b == blk[p]
           comb == IF ~cacheNil /\ Has(cache, b)
                   THEN combined[p] \o cache[b] ELSE combined[p]
       IN /\ combined' = [combined EXCEPT ![p] = comb]
          /\ gets' = [gets EXCEPT ![p] = IF cacheNil THEN @ ELSE @ + 1]
          /\ IF b < LastNeeded(req[p])
             THEN /\ blk' = [blk EXCEPT ![p] = b + 1]
                  /\ UNCHANGED <<pc, res>>
             ELSE /\ blk' = [blk EXCEPT ![p] = 0]
                  /\ pc' = [pc EXCEPT ![p] = "done"]
                  /\ res' = [res EXCEPT ![p] = Synthetic(req[p], comb)]
    /\ UNCHANGED <<shared, req, missing, resp, doErr, prev, sent, puts>>
    /\ UNCHANGED <<view, aside, cond, version>>

RoundTrip(p, R) ==
    \/ Call(p, R)
    \/ Repeat(p)
    \/ Forward(p)
    \/ Scan(p)
    \/ Do(p)
    \/ Fetch(p)
    \/ Store(p)
    \/ Finish(p)
    \/ Rebuild(p)

\* Concurrent callers on one transport.
Next == \E p \in Procs : RoundTrip(p, SharedRequests)

Spec == Init /\ [][Next]_vars

\* A lone caller, drawing on every request.
NextSeq == RoundTrip(1, Requests)

SpecSeq == Init /\ [][NextSeq]_vars

\* The origin replaces the resource.
Change ==
    /\ version = 1
    /\ version' = 2
    /\ UNCHANGED <<cacheNil, cache, group, wire, ncalls, pc, req, blk,
                   missing, resp, doErr, combined, res, prev, sent, gets,
                   puts, cond, view, aside>>

MaxChangeCalls == 4

\* The requests of readers that opened the resource at version 1, sending
\* its validator or none.
ChangeRequests == {Get(FullRange(0, 1)), Get(FullRange(0, 3))}

Quiet == \A q \in Procs : pc[q] \in {"idle", "done"}

Conditional(p) ==
    \E r \in ChangeRequests, c \in {0, 1} :
        Quiet /\ Arrive(p, r, FALSE, c, MaxChangeCalls)

Again(p) ==
    Quiet /\ pc[p] = "done"
        /\ Arrive(p, req[p], TRUE, cond[p], MaxChangeCalls)

\* Callers taking turns on one transport while the resource changes.
NextChange ==
    \/ Change
    \/ \E p \in Procs :
        \/ Conditional(p)
        \/ Again(p)
        \/ Scan(p)
        \/ Do(p)
        \/ Fetch(p)
        \/ Store(p)
        \/ Finish(p)
        \/ Rebuild(p)

InitChange == Init /\ ~cacheNil

SpecChange == InitChange /\ [][NextChange]_vars

(* ------------------------------ claims -------------------------------- *)

Done(p) == pc[p] = "done"
Ok(p) == res[p].err = ""
Cacheable(r) == r.method = "GET" /\ r.hdr.kind = "full"
\* The call is the repetition of a call of the same request.
Repeated(p) == prev[p] # NoAnswer
\* The aligned block b of the resource.
OriginBlock(b) == Slice(Resource, b * BS, Min((b + 1) * BS, N))
\* The wrapped transport's answer is one of its failures, or a status the
\* transport does not accept.
FetchFailed(a) == a.err # "" \/ a.status \notin {200, 206} \/ a.readErr
\* Origin requests that cover block b.
Covering(b) ==
    {i \in 1..Len(wire) : wire[i].hdr.s <= b * BS /\ b * BS <= wire[i].hdr.e}

\* C1: with a MemoryBlockCache, every RoundTrip of a lone caller that returns
\* without error for bytes=start-end, 0 <= start <= end < N, has the resource
\* bytes [start..end] as its body.
C1_BodyIsRequestedRange ==
    \A p \in Procs :
        (/\ ~cacheNil /\ Done(p) /\ Ok(p) /\ Cacheable(req[p])
         /\ req[p].hdr.s <= req[p].hdr.e /\ req[p].hdr.e < N)
        => res[p].body = Slice(Resource, req[p].hdr.s, req[p].hdr.e + 1)

\* C2: every block number present in the cache maps to the origin's bytes of
\* that aligned block.
C2_CacheHoldsOriginBlocks ==
    \A b \in DOMAIN cache : cache[b] = OriginBlock(b)

\* C3: after a successful RoundTrip every block of the requested range is in
\* the cache, and a call that found all its blocks present made no origin
\* request.
C3_NeededBlocksCached ==
    \A p \in Procs :
        (~cacheNil /\ Done(p) /\ Ok(p) /\ Cacheable(req[p]))
        => /\ \A b \in Needed(req[p]) : Has(cache, b)
           /\ (missing[p] = <<>> => sent[p] = <<>>)

\* C4: a RoundTrip whose origin fetch fails returns the error and has stored
\* nothing, the blocks it missed are still missing, and the same request
\* issued again makes a new origin request.
C4_FailureDoesNotPoison ==
    \A p \in Procs :
        Cacheable(req[p]) =>
            /\ (pc[p] \in {"finish", "done"} /\ resp[p] # NoAnswer
                    /\ FetchFailed(resp[p]))
                => /\ puts[p] = 0
                   /\ doErr[p] # ""
                   /\ \A i \in 1..Len(missing[p]) : ~Has(cache, missing[p][i])
                   /\ (Done(p) => res[p] = Failed(doErr[p]))
            /\ (Done(p) /\ Repeated(p) /\ prev[p].err # "")
                => Len(sent[p]) = 1

\* A repeated call, after a failed one, that fetched from the origin and
\* succeeded.
C4_Witness ==
    \E p \in Procs :
        /\ ~cacheNil /\ Done(p) /\ Cacheable(req[p])
        /\ prev[p] = Failed("unexpected HTTP status")
        /\ Ok(p) /\ Len(sent[p]) = 1 /\ puts[p] > 0

\* C5: when every caller issues the same cacheable request once on an empty
\* cache and all succeed, the origin has received exactly one request.
C5_OneOriginRequest ==
    (/\ ~cacheNil /\ ncalls = NumProcs
     /\ \A p \in Procs :
            Done(p) /\ Ok(p) /\ req[p] = req[1] /\ Cacheable(req[p]))
    => Len(wire) = 1

\* Callers that lead a fetch in progress.
Leading(p) == pc[p] \in {"fetch", "put", "finish"}

C7_EachBlockFetchedOnce ==
    \A p, q \in Procs :
        (/\ ~cacheNil /\ p # q /\ ncalls = 2
         /\ Done(p) /\ Ok(p) /\ Cacheable(req[p])
         /\ Done(q) /\ Ok(q) /\ Cacheable(req[q])
         /\ Needed(req[p]) \cap Needed(req[q]) # {}
         /\ Needed(req[p]) # Needed(req[q]))
        => \A b \in Needed(req[p]) \cup Needed(req[q]) :
                Cardinality(Covering(b)) <= 1

\* C8: a cacheable request that succeeded and is issued again, the origin
\* answering without failure, succeeds again with the same body.
C8_SameBodyTwice ==
    \A p \in Procs :
        (/\ ~cacheNil /\ Done(p) /\ Cacheable(req[p])
         /\ Repeated(p) /\ prev[p].err = "" /\ ~Faulty(resp[p]))
        => res[p] = prev[p]

\* C9: a request that is not a GET, or has no Range header, reaches the
\* wrapped transport once and unchanged, the wrapped transport's answer is
\* what the caller gets, and the cache is neither read nor written.
C9_PassThroughVerbatim ==
    \A p \in Procs :
        (Done(p) /\ (req[p].method # "GET" \/ req[p].hdr.kind = "none"))
        => /\ sent[p] = <<req[p]>>
           /\ res[p] = resp[p]
           /\ gets[p] = 0 /\ puts[p] = 0

\* A non-GET carrying a Range header was answered while blocks were cached.
C9_Witness ==
    \E p \in Procs :
        /\ Done(p) /\ req[p].method = "POST" /\ req[p].hdr.kind = "full"
        /\ ~cacheNil /\ DOMAIN cache # {} /\ Ok(p)

\* C10: with a nil Cache a GET with a Range header reaches the wrapped
\* transport with the caller's own Range and the wrapped transport's answer
\* is what the caller gets.
C10_NilCachePassThrough ==
    \A p \in Procs :
        (cacheNil /\ Done(p) /\ req[p].method = "GET"
            /\ req[p].hdr.kind # "none")
        => sent[p] = <<req[p]>> /\ res[p] = resp[p]


(* ======================= the seekable view ============================ *)

MaxBuf == 3
MaxOps == 2
\* The width in bits of the cursor and of Seek's offset, scaled down from
\* the 64 of int64.
Width == 5

MaxInt == 2 ^ (Width - 1) - 1
MinInt == 0 - 2 ^ (Width - 1)

\* The value a signed sum has in Go: it wraps around.
Wrap(x) == ((x - MinInt) % (2 ^ Width)) + MinInt

BufLens == 0..MaxBuf
Offsets == (0 - 1)..(N + 1)
Whences == {0, 1, 2, 3}
SeekStart == 0
SeekCurrent == 1
SeekEnd == 2

\* A header that is not set, for the two numeric ones.
Absent == 0 - 1
\* The total of a Content-Range that is no number ("bytes 0-1/*").
Star == 0

\* Response headers: ETag, Last-Modified, the total of Content-Range and
\* Content-Length.
Hdr(etag, lastMod, total, length) ==
    [ETag |-> etag, LastModified |-> lastMod, ContentRange |-> total,
     ContentLength |-> length]

\* A header as extractMetadata sees it: whether h.Get returns a value, the
\* number of parts strings.Split(value, "/") gives (Content-Range), and
\* whether strconv.ParseInt accepts the part it is given, with which value.
Field(set, parts, num, val) ==
    [set |-> set, parts |-> parts, num |-> num, val |-> val]
Unset == Field(FALSE, 0, FALSE, 0)

\* The Length extractMetadata computes from Content-Range and
\* Content-Length.
ParsedLength(cr, cl) ==
    IF cr.set
    THEN (IF cr.parts = 2 /\ cr.num THEN cr.val ELSE 0)
    ELSE IF cl.set /\ cl.num THEN cl.val ELSE 0

\* The headers of the model's origins: "bytes s-e/total" with a total that
\* is a number or "*", and a decimal Content-Length.
RangeField(total) ==
    IF total = Absent THEN Unset
    ELSE IF total = Star THEN Field(TRUE, 2, FALSE, 0)
    ELSE Field(TRUE, 2, TRUE, total)
LengthField(length) ==
    IF length = Absent THEN Unset ELSE Field(TRUE, 1, TRUE, length)

extractMetadata(h) ==
    Metadata(h.ETag, h.LastModified,
             ParsedLength(RangeField(h.ContentRange),
                          LengthField(h.ContentLength)))

EqualMutStrict(m, other) == m = other

Equal(m, other) ==
    /\ ~(m.ETag # "" /\ other.ETag # "" /\ m.ETag # other.ETag)
    /\ ~(m.LastModified # "" /\ other.LastModified # ""
            /\ m.LastModified # other.LastModified)
    /\ ~(m.Length > 0 /\ other.Length > 0 /\ m.Length # other.Length)

\* The conditional headers ApplyValidators sets on a request.
ApplyValidators(m) == [IfMatch |-> m.ETag, IfUnmodifiedSince |-> m.LastModified]
NoValidators == [IfMatch |-> "", IfUnmodifiedSince |-> ""]

\* The GET of a ReadAt: Range: bytes=s-e and the validators.
ViewRequest(s, e, v) == [s |-> s, e |-> e, v |-> v]

\* What the origin may put in the validators of a response, and in the
\* metadata of the HEAD response at open.
Validators == {<<"", "">>, <<"v1", "t1">>, <<"v2", "t1">>, <<"v1", "t2">>}
OpenValidators == {<<"", "">>, <<"v1", "">>, <<"", "t1">>, <<"v1", "t1">>}
Totals == {N, N + 1, Star, Absent}

Reply(status, hdr, body, bodyErr) ==
    [err |-> "", status |-> status, hdr |-> hdr, body |-> body,
     bodyErr |-> bodyErr]
NoHdr == Hdr("", "", Absent, Absent)
ClientError == [err |-> "net", status |-> 0, hdr |-> <<>>, body |-> <<>>,
                bodyErr |-> ""]

\* 206 with the bytes of the range, under every header the origin may send.
Partials(rq) ==
    {Reply(206, Hdr(v[1], v[2], t, rq.e - rq.s + 1),
           Slice(Resource, rq.s, rq.e + 1), "") :
        v \in Validators, t \in Totals}

\* 200 with the whole resource.
Fulls(rq) ==
    {Reply(200, Hdr(v[1], v[2], Absent, l), Resource, "") :
        v \in Validators, l \in {N, N + 1}}

\* 206 whose body ends, or breaks, after k bytes.
Cuts(rq) ==
    {Reply(206, Hdr("", "", N, rq.e - rq.s + 1),
           Slice(Resource, rq.s, rq.s + k), be) :
        k \in {x \in {0, 1} : x < rq.e - rq.s + 1}, be \in {"", "reset"}}

Refusals(rq) ==
    {Reply(500, NoHdr, <<>>, ""), ClientError}
        \cup (IF rq.v # NoValidators
              THEN {Reply(412, NoHdr, <<>>, "")} ELSE {})

ViewAnswers(rq) ==
    IF 0 <= rq.s /\ rq.s <= rq.e /\ rq.e < N
    THEN Partials(rq) \cup Fulls(rq) \cup Cuts(rq) \cup Refusals(rq)
    ELSE {Reply(416, NoHdr, <<>>, ""), ClientError}

\* fmt.Errorf("httpseek: unexpected HTTP status %s", resp.Status)
StatusErr(status) ==
    CASE status = 412 ->
            "httpseek: unexpected HTTP status 412 Precondition Failed"
      [] status = 416 ->
            "httpseek: unexpected HTTP status 416 Requested Range Not Satisfiable"
      [] status = 500 ->
            "httpseek: unexpected HTTP status 500 Internal Server Error"
      [] OTHER -> "httpseek: unexpected HTTP status"

\* io.ReadFull(resp.Body, p[:want]) and the mapping of ErrUnexpectedEOF.
ReadFullN(a, want) == Min(Len(a.body), want)
ReadFullErr(a, want) ==
    IF Len(a.body) >= want THEN ""
    ELSE IF a.bodyErr # "" THEN a.bodyErr
    ELSE "EOF"

\* The buffer after n bytes of body were copied to its start.
Copy(p, body, n) == [i \in 1..Len(p) |-> IF i <= n THEN body[i] ELSE p[i]]
Blank(len) == [i \in 1..len |-> 0 - 1]

\* end of ReadAt: offset + len(p) - 1, clamped to the last byte.
ClampEnd(offset, len, size) ==
    IF offset + len - 1 >= size THEN size - 1 ELSE offset + len - 1

\* Whether ReadAt checks the response against the snapshot: HTTPFile does,
\* ReaderAtHTTP has no snapshot.
MismatchMutNever(k, m, a) == FALSE

Mismatch(k, m, a) == k = "HTTPFile" /\ ~Equal(m, extractMetadata(a.hdr))

\* The outcome of ReadAt once the response is there: <<n, err>>.
Outcome(k, m, a, want, len) ==
    IF a.err # "" THEN <<0, a.err>>
    ELSE IF a.status \notin {200, 206} THEN <<0, StatusErr(a.status)>>
    ELSE IF Mismatch(k, m, a) THEN <<0, "httpseek: metadata mismatch">>
    ELSE <<ReadFullN(a, want), ReadFullErr(a, want)>>

\* New / NewReaderAt succeeded: the HEAD response gave the length and, to
\* an HTTPFile, the validators.
Open(k, v) ==
    /\ kind = ""
    /\ kind' = k
    /\ meta' = Metadata(v[1], v[2], N)
    /\ UNCHANGED <<off, mu, nops, issued, fpc, call, at, buf, rn, rerr, got>>
    /\ UNCHANGED <<transport, aside>>

\* The answer to the HEAD of New: (resp, err) of client.Do, with the
\* headers New looks at.
HeadAnswer(err, status, hdr, accept) ==
    [err |-> err, status |-> status, hdr |-> hdr, accept |-> accept]

\* An origin that serves the resource with ranges.
GoodHeads ==
    {HeadAnswer("", 200, Hdr(v[1], v[2], Absent, N), "bytes") : v \in OpenValidators}

\* Every answer to the HEAD: other statuses, a Content-Length that is not
\* set or 0, the length in a Content-Range, Accept-Ranges not set or
\* without "bytes", and no answer at all.
HeadAnswers ==
    GoodHeads \cup
    {HeadAnswer("net", 0, NoHdr, ""),
     HeadAnswer("", 204, Hdr("", "", Absent, N), "bytes"),
     HeadAnswer("", 199, Hdr("", "", Absent, N), "bytes"),
     HeadAnswer("", 300, Hdr("", "", Absent, N), "bytes"),
     HeadAnswer("", 404, Hdr("", "", Absent, N), "bytes"),
     HeadAnswer("", 200, Hdr("v1", "t1", Absent, Absent), "bytes"),
     HeadAnswer("", 200, Hdr("v1", "t1", Absent, 0), "bytes"),
     HeadAnswer("", 200, Hdr("", "", N, Absent), "bytes"),
     HeadAnswer("", 200, Hdr("", "", Star, N), "bytes"),
     HeadAnswer("", 200, Hdr("v1", "t1", Absent, N), ""),
     HeadAnswer("", 200, Hdr("v1", "t1", Absent, N), "none"),
     HeadAnswer("", 200, Hdr("v1", "t1", Absent, N), "none, bytes")}

\* strings.Contains(resp.Header.Get("Accept-Ranges"), "bytes")
ContainsBytes(accept) == accept \in {"bytes", "none, bytes"}

\* The client New works with: http.DefaultClient for nil. Open calls
\* New(url, nil).
ClientOf(entry, given) ==
    IF entry = "Open" THEN "default"
    ELSE IF given = "nil" THEN "default"
    ELSE given

\* The error New returns for the answer to its HEAD, "" for none.
NewErrMutNoRanges(h) ==
    IF h.err # "" THEN h.err
    ELSE IF h.status < 200 \/ h.status >= 300 THEN "httpseek: HEAD returned"
    ELSE IF extractMetadata(h.hdr).Length <= 0
        THEN "httpseek: missing Content-Length"
    ELSE ""

NewErr(h) ==
    IF h.err # "" THEN h.err
    ELSE IF h.status < 200 \/ h.status >= 300 THEN "httpseek: HEAD returned"
    ELSE IF extractMetadata(h.hdr).Length <= 0
        THEN "httpseek: missing Content-Length"
    ELSE IF ~ContainsBytes(h.accept)
        THEN "httpseek: server does not accept bytes ranges"
    ELSE ""

\* New(url, client) and Open(url, client): the HEAD, its checks and the
\* HTTPFile returned when they pass.
New(entry, given, h) ==
    /\ kind = ""
    /\ head = NoHead
    /\ head' = [entry |-> entry, given |-> given,
                client |-> ClientOf(entry, given), sent |-> <<"HEAD">>,
                resp |-> h, err |-> NewErr(h)]
    /\ IF NewErr(h) = ""
       THEN kind' = "HTTPFile" /\ meta' = extractMetadata(h.hdr)
       ELSE UNCHANGED <<kind, meta>>
    /\ UNCHANGED <<off, mu, nops, issued, fpc, call, at, buf, rn, rerr, got>>
    /\ UNCHANGED <<transport, pure, stores, ctx, paged>>

Opens ==
    \/ \E h \in GoodHeads : New("New", "nil", h)
    \/ Open("Reader", <<"", "">>)

\* A goroutine calls a method of the view.
Begin(p, c, pos, offset, n) ==
    /\ kind # ""
    /\ fpc[p] \in {"idle", "ret"}
    /\ nops < MaxOps
    /\ nops' = nops + 1
    /\ call' = [call EXCEPT ![p] = c]
    /\ fpc' = [fpc EXCEPT ![p] = pos]
    /\ at' = [at EXCEPT ![p] = offset]
    /\ buf' = [buf EXCEPT ![p] = Blank(c.len)]
    /\ rn' = [rn EXCEPT ![p] = n]
    /\ rerr' = [rerr EXCEPT ![p] = ""]
    /\ got' = [got EXCEPT ![p] = NoResponse]
    /\ issued' = [issued EXCEPT ![p] = <<>>]
    /\ UNCHANGED <<kind, meta, off, mu>>
    /\ UNCHANGED <<transport, aside>>

ReadAtCall(p, L, O) ==
    \E len \in L, offset \in O :
        Begin(p, [op |-> "ReadAt", len |-> len, offset |-> offset,
                  whence |-> 0], "check", offset, 0)

ReadCall(p, L) ==
    \E len \in L :
        Begin(p, [op |-> "Read", len |-> len, offset |-> 0, whence |-> 0],
              "load", 0, 0)

SeekCall(p, O) ==
    \E offset \in O, whence \in Whences :
        Begin(p, [op |-> "Seek", len |-> 0, offset |-> offset,
                  whence |-> whence], "load", 0, 0)

\* Size() and Close(): one step, no state of the view is touched.
SizeCall(p) ==
    Begin(p, [op |-> "Size", len |-> 0, offset |-> 0, whence |-> 0],
          "ret", 0, meta.Length)

\* Where a Read or a Seek goes once it has the cursor.
AfterLoad(c) == IF c.op = "Read" THEN "check" ELSE "seek"
\* Where ReadAt returns to.
AfterReadAt(c) == IF c.op = "Read" THEN "add" ELSE "ret"

\* Whether the method takes r.mu: Reader does, HTTPFile has none.
Locks(k) == k = "Reader"

\* Read and Seek load the cursor; Reader's take the mutex first.
Load(p) ==
    /\ fpc[p] = "load"
    /\ IF Locks(kind)
       THEN mu = 0 /\ mu' = p
       ELSE UNCHANGED mu
    /\ at' = [at EXCEPT ![p] = off]
    /\ fpc' = [fpc EXCEPT ![p] = AfterLoad(call[p])]
    /\ UNCHANGED <<kind, meta, off, nops, issued, call, buf, rn, rerr, got>>
    /\ UNCHANGED <<transport, aside>>

\* The checks of ReadAt before any request: the error it returns at once,
\* "" when it goes on. ReaderAtHTTP has no check of the sign.
PrecheckMutNoSign(k, offset, size) == IF offset >= size THEN "EOF" ELSE ""

Precheck(k, offset, size) ==
    IF k = "HTTPFile" /\ offset < 0 THEN "httpseek: invalid offset"
    ELSE IF offset >= size THEN "EOF"
    ELSE ""

Check(p) ==
    /\ fpc[p] = "check"
    /\ LET e == Precheck(kind, at[p], meta.Length) IN
        /\ rerr' = [rerr EXCEPT ![p] = e]
        /\ fpc' = [fpc EXCEPT ![p] =
                      IF e = "" THEN "get" ELSE AfterReadAt(call[p])]
    /\ UNCHANGED <<kind, meta, off, mu, nops, issued, call, at, buf, rn, got>>
    /\ UNCHANGED <<transport, aside>>

\* The snapshot after a response was compared with it.
SnapshotMutAdopt(m, a) ==
    IF a.err = "" /\ a.status \in {200, 206}
    THEN extractMetadata(a.hdr) ELSE m

Snapshot(m, a) == m

\* The GET of ReadAt, the checks of its response and the read of its body.
ClientDo(p) ==
    /\ fpc[p] = "get"
    /\ LET end == ClampEnd(at[p], call[p].len, meta.Length)
           want == end - at[p] + 1
           rq == ViewRequest(at[p], end,
                             IF kind = "HTTPFile" THEN ApplyValidators(meta)
                             ELSE NoValidators)
       IN /\ issued' = [issued EXCEPT ![p] = Append(@, rq)]
          /\ \E a \in ViewAnswers(rq) :
              LET o == Outcome(kind, meta, a, want, call[p].len) IN
                /\ got' = [got EXCEPT ![p] = a]
                /\ rn' = [rn EXCEPT ![p] = o[1]]
                /\ rerr' = [rerr EXCEPT ![p] = o[2]]
                /\ buf' = [buf EXCEPT ![p] = Copy(@, a.body, o[1])]
                /\ meta' = Snapshot(meta, a)
    /\ fpc' = [fpc EXCEPT ![p] = AfterReadAt(call[p])]
    /\ UNCHANGED <<kind, off, mu, nops, call, at>>
    /\ UNCHANGED <<transport, aside>>

\* Whether Read moves the cursor after ReadAt returned err: HTTPFile only
\* for nil and EOF, Reader always.
Advances(k, err) == k = "Reader" \/ err \in {"", "EOF"}

\* The cursors r.off += n may store: HTTPFile's is unsynchronised, so the
\* sum may be built on the value the call loaded before ReadAt.
Sums(k, cur, loaded, n) ==
    IF k = "Reader" THEN {Wrap(cur + n)}
    ELSE {Wrap(cur + n), Wrap(loaded + n)}

\* The end of Read: the cursor moves, Reader's mutex is released.
Add(p) ==
    /\ fpc[p] = "add"
    /\ IF Advances(kind, rerr[p])
       THEN off' \in Sums(kind, off, at[p], rn[p])
       ELSE UNCHANGED off
    /\ mu' = IF Locks(kind) THEN 0 ELSE mu
    /\ fpc' = [fpc EXCEPT ![p] = "ret"]
    /\ UNCHANGED <<kind, meta, nops, issued, call, at, buf, rn, rerr, got>>
    /\ UNCHANGED <<transport, aside>>

\* The position Seek computes, from the cursor it loaded.
SeekTarget(c, cur, size) ==
    CASE c.whence = SeekStart -> c.offset
      [] c.whence = SeekCurrent -> Wrap(c.offset + cur)
      [] c.whence = SeekEnd -> Wrap(c.offset + size)
      [] OTHER -> 0

SeekErrMutNone(k, c, cur, size) == ""

SeekErr(k, c, cur, size) ==
    IF c.whence \notin {SeekStart, SeekCurrent, SeekEnd}
    THEN (IF k = "Reader" THEN "invalid seek" ELSE "httpseek: invalid whence")
    ELSE IF SeekTarget(c, cur, size) < 0
    THEN (IF k = "Reader" THEN "invalid seek" ELSE "httpseek: invalid offset")
    ELSE ""

\* Seek: the switch on whence, the check and the store of the cursor.
SeekStep(p) ==
    /\ fpc[p] = "seek"
    /\ LET e == SeekErr(kind, call[p], at[p], meta.Length)
           t == SeekTarget(call[p], at[p], meta.Length)
       IN /\ rerr' = [rerr EXCEPT ![p] = e]
          /\ rn' = [rn EXCEPT ![p] = IF e = "" THEN t ELSE 0]
          /\ off' = IF e = "" THEN t ELSE off
    /\ mu' = IF Locks(kind) THEN 0 ELSE mu
    /\ fpc' = [fpc EXCEPT ![p] = "ret"]
    /\ UNCHANGED <<kind, meta, nops, issued, call, at, buf, got>>
    /\ UNCHANGED <<transport, aside>>

\* Read and Seek, the methods that use the cursor.
Cursor(p, L, O) ==
    \/ ReadCall(p, L)
    \/ SeekCall(p, O)
    \/ Load(p)
    \/ Check(p)
    \/ ClientDo(p)
    \/ Add(p)
    \/ SeekStep(p)

Method(p, L, O) ==
    \/ ReadAtCall(p, L, O)
    \/ SizeCall(p)
    \/ Cursor(p, L, O)

\* One goroutine using a view.
NextFile == Opens \/ Method(1, BufLens, Offsets)

\* The view is used with a plain client.
InitFile == Init /\ cacheNil

SpecFile == InitFile /\ [][NextFile]_vars

\* Every way to call New and Open, and a first read of what they return.
NextOpen ==
    \/ \E entry \in {"New", "Open"}, given \in {"nil", "custom"},
          h \in HeadAnswers : New(entry, given, h)
    \/ Method(1, {1}, {0})

SpecOpen == InitFile /\ [][NextOpen]_vars

\* Two goroutines sharing a view.
NextRace == Opens \/ \E p \in Procs : Cursor(p, {2}, {1})

SpecRace == InitFile /\ [][NextRace]_vars

(* ------------------------ claims on the view -------------------------- *)

Returned(p) == fpc[p] = "ret"
Succeeded(p) == rerr[p] \in {"", "EOF"}
\* The request of the call's GET.
Asked(p) == issued[p][1]
\* The origin kept to the contract: the bytes asked for with 206, or the
\* whole resource with 200.
Honours(a, rq) ==
    /\ a.err = "" /\ a.bodyErr = ""
    /\ \/ a.status = 206 /\ a.body = Slice(Resource, rq.s, rq.e + 1)
       \/ a.status = 200 /\ a.body = Resource
\* The first n bytes of the buffer.
Filled(p) == SubSeq(buf[p], 1, rn[p])

\* C11: with an origin that answers 206 with the bytes asked for or 200 with
\* the whole resource, every ReadAt of a piece [offset, offset + len) of the
\* resource returns exactly the bytes of that piece, so that the pieces of
\* any partition of [0, N), read in any order, concatenate to the resource.
C11_PiecesAreResourceBytes ==
    \A p \in Procs :
        (/\ Returned(p) /\ kind = "HTTPFile" /\ call[p].op = "ReadAt"
         /\ call[p].len > 0 /\ at[p] >= 0 /\ at[p] + call[p].len <= N
         /\ issued[p] # <<>> /\ Honours(got[p], Asked(p)) /\ Succeeded(p))
        => /\ rn[p] = call[p].len
           /\ buf[p] = Slice(Resource, at[p], at[p] + call[p].len)

\* C12: a ReadAt or Read that starts below Size() with a buffer reaching
\* past the end returns the Size() - offset bytes of the tail together with
\* EOF, not with nil.
C12_TailReadReturnsEOF ==
    \A p \in Procs :
        (/\ Returned(p) /\ kind = "HTTPFile" /\ call[p].op \in {"ReadAt", "Read"}
         /\ at[p] >= 0 /\ at[p] < meta.Length
         /\ at[p] + call[p].len > meta.Length
         /\ issued[p] # <<>> /\ got[p].status = 206
         /\ Honours(got[p], Asked(p)) /\ Succeeded(p))
        => /\ rn[p] = meta.Length - at[p]
           /\ Filled(p) = Slice(Resource, at[p], meta.Length)
           /\ rerr[p] = "EOF"

\* C13: ReadAt at an offset >= Size() returns (0, EOF) and ReadAt at a
\* negative offset returns (0, error); neither sends a request nor writes
\* to the buffer.
C13_OutOfRangeWithoutRequest ==
    \A p \in Procs :
        (Returned(p) /\ kind = "HTTPFile" /\ call[p].op = "ReadAt")
        => /\ at[p] >= meta.Length
                => /\ rn[p] = 0 /\ rerr[p] = "EOF"
                   /\ issued[p] = <<>> /\ buf[p] = Blank(call[p].len)
           /\ at[p] < 0
                => /\ rn[p] = 0 /\ rerr[p] \notin {"", "EOF"}
                   /\ issued[p] = <<>> /\ buf[p] = Blank(call[p].len)

C13_Witness ==
    \E p \in Procs :
        /\ Returned(p) /\ kind = "HTTPFile" /\ call[p].op = "ReadAt"
        /\ at[p] >= meta.Length /\ call[p].len > 0 /\ rerr[p] = "EOF"

\* The errors ReadAt builds for a status it does not accept.
UnexpectedStatusErrs == {StatusErr(st) : st \in {0, 412, 416, 500}}

\* C14: a 412 answer makes ReadAt return 0 bytes and an error of its own
\* kind, "remote resource changed", which is not the error built for the
\* other statuses.
C14_PreconditionFailedIsDistinguished ==
    \A p \in Procs :
        (/\ Returned(p) /\ kind = "HTTPFile" /\ call[p].op = "ReadAt"
         /\ got[p].err = "" /\ got[p].status = 412)
        => /\ rn[p] = 0
           /\ rerr[p] # ""
           /\ rerr[p] \notin UnexpectedStatusErrs

\* The total length a response declares: the total of Content-Range, or
\* Content-Length when there is no Content-Range; 0 when it declares none.
Declared(h) ==
    IF h.ContentRange # Absent
    THEN (IF h.ContentRange > 0 THEN h.ContentRange ELSE 0)
    ELSE IF h.ContentLength > 0 THEN h.ContentLength ELSE 0

\* A value recorded at open and a value the response carries, which differ.
Differs(m, h) ==
    \/ m.ETag # "" /\ h.ETag # "" /\ h.ETag # m.ETag
    \/ m.LastModified # "" /\ h.LastModified # ""
            /\ h.LastModified # m.LastModified
    \/ m.Length > 0 /\ Declared(h) > 0 /\ Declared(h) # m.Length

\* C16: when a 200 or 206 response carries an ETag, a Last-Modified or a
\* positive total length that differs from the value recorded at open,
\* ReadAt returns (0, error) and no byte of the body reaches the buffer.
C16_MismatchFailsTheRead ==
    \A p \in Procs :
        (/\ Returned(p) /\ kind = "HTTPFile" /\ call[p].op = "ReadAt"
         /\ got[p].err = "" /\ got[p].status \in {200, 206}
         /\ Differs(meta, got[p].hdr))
        => /\ rn[p] = 0
           /\ rerr[p] \notin {"", "EOF"}
           /\ buf[p] = Blank(call[p].len)

C16_Witness ==
    \E p \in Procs :
        /\ Returned(p) /\ kind = "HTTPFile" /\ call[p].op = "ReadAt"
        /\ got[p].status = 206 /\ call[p].len > 0
        /\ got[p].hdr.ETag = "v2" /\ meta.ETag = "v1"
        /\ rerr[p] = "httpseek: metadata mismatch"

\* C17: once the view is open no call changes its descriptor, whatever the
\* call returns, and Size() returns the length recorded at open.
C17_DescriptorIsImmutable ==
    [][kind # ""
        => /\ kind' = kind
           /\ meta' = meta
           /\ \A p \in Procs :
                (fpc'[p] = "ret" /\ call'[p].op = "Size")
                    => rn'[p] = meta.Length]_vars

C17_Witness ==
    \E p \in Procs :
        /\ Returned(p) /\ call[p].op = "Size" /\ rn[p] = N /\ nops >= 2

\* C18: Seek sets the cursor to offset (Start), cursor + offset (Current)
\* or Size() + offset (End) and returns it; a negative result or another
\* whence is an error that leaves the cursor where it was; a position
\* beyond Size() is accepted as it is, and the Read after it returns
\* (0, EOF). The sums are those of the cursor's integer type, so a sum past
\* MaxInt is the negative result it wraps to.
C18_SeekSetsTheCursor ==
    \A p \in Procs :
        /\ (Returned(p) /\ call[p].op = "Seek")
            => LET c == call[p]
                   t == IF c.whence = 0 THEN c.offset
                        ELSE IF c.whence = 1 THEN Wrap(at[p] + c.offset)
                        ELSE Wrap(meta.Length + c.offset)
               IN IF c.whence \in {0, 1, 2} /\ t >= 0
                  THEN rerr[p] = "" /\ rn[p] = t /\ off = t
                  ELSE rerr[p] # "" /\ off = at[p]
        /\ (Returned(p) /\ call[p].op = "Read" /\ at[p] >= meta.Length)
            => rn[p] = 0 /\ rerr[p] = "EOF" /\ issued[p] = <<>>

C18_Witness ==
    \E p \in Procs :
        /\ Returned(p) /\ call[p].op = "Read" /\ call[p].len > 0
        /\ at[p] > meta.Length /\ rerr[p] = "EOF"

\* C19: when Read returns n, the cursor is n past where the Read found it,
\* whichever error comes with n.
C19_ReadAdvancesByN ==
    \A p \in Procs :
        (Returned(p) /\ call[p].op = "Read") => off = at[p] + rn[p]

\* A goroutine between the load and the store of the cursor.
Critical(p) ==
    /\ call[p].op \in {"Read", "Seek"}
    /\ fpc[p] \in {"check", "get", "add", "seek"}

\* C20: the read-modify-write of the cursor in Read and Seek is atomic: no
\* two goroutines are between their load and their store of the cursor at
\* once, so no two Reads read from the same cursor value.
C20_CursorIsGuarded ==
    \A p, q \in Procs : (p # q /\ Critical(p)) => ~Critical(q)

\* C15: once a call has failed on a 412 of the origin, the same call made
\* again through the same transport returns no byte of the version that was
\* replaced: nothing of it comes from blocks cached before the change.
C15_NoStaleBytesAfter412 ==
    \A p \in Procs :
        (/\ Done(p) /\ Repeated(p) /\ Ok(p)
         /\ prev[p] = Failed(FetchErr(PreconditionFailed)))
        => \A i \in 1..Len(res[p].body) : res[p].body[i] >= Shift

(* ------------------------ claims on New / Open ------------------------ *)

\* C21: New and Open return a reader exactly when the HEAD was answered,
\* with a 2xx status, an Accept-Ranges containing "bytes" and headers from
\* which a positive length is extracted; otherwise they return an error and
\* no reader, and nothing but the HEAD was sent.
C21_OpenChecksTheHead ==
    head # NoHead =>
        LET h == head.resp
            fine == /\ h.err = ""
                    /\ h.status \in 200..299
                    /\ h.accept \in {"bytes", "none, bytes"}
                    /\ extractMetadata(h.hdr).Length > 0
        IN /\ fine => kind = "HTTPFile" /\ head.err = ""
           /\ ~fine => /\ kind = "" /\ head.err # ""
                       /\ \A p \in Procs : issued[p] = <<>>
           /\ head.sent = <<"HEAD">>

C21_Witness ==
    /\ head # NoHead /\ kind = ""
    /\ head.resp.err = "" /\ head.resp.status = 200
    /\ head.resp.accept = "none"

\* C22: the reader works with the client it was given, and with the default
\* client only when it was given nil.
C22_GivenClientIsUsed ==
    head # NoHead =>
        head.client = IF head.given = "nil" THEN "default" ELSE head.given

(* ---------------------------- Metadata -------------------------------- *)

\* The metadata values compared: each validator unset or one of two
\* values, the length negative, 0 or one of two positive values.
Metadatas ==
    {Metadata(e, l, n) :
        e \in {"", "v1", "v2"}, l \in {"", "t1", "t2"},
        n \in {0 - 1, 0, N, N + 1}}

\* Content-Range: not set, "garbage value", "bytes 0-1/N", "bytes 0-1/0",
\* "bytes 0-1/-2", "bytes 0-1/*", "bytes 0-1/N/N".
RangeFields ==
    {Unset, Field(TRUE, 1, FALSE, 0), Field(TRUE, 2, TRUE, N),
     Field(TRUE, 2, TRUE, 0), Field(TRUE, 2, TRUE, 0 - 2),
     Field(TRUE, 2, FALSE, 0), Field(TRUE, 3, TRUE, N)}

\* Content-Length: not set, "2", "N", "0", "-2", "abc".
LengthFields ==
    {Unset, Field(TRUE, 1, TRUE, 2), Field(TRUE, 1, TRUE, N),
     Field(TRUE, 1, TRUE, 0), Field(TRUE, 1, TRUE, 0 - 2),
     Field(TRUE, 1, FALSE, 0)}

MetaInputs ==
    {[fn |-> "Equal", args |-> <<a, b>>, applied |-> FALSE, out |-> <<>>] :
        a \in Metadatas, b \in Metadatas}
    \cup
    {[fn |-> "extractMetadata", args |-> <<cr, cl>>, applied |-> FALSE,
      out |-> <<>>] : cr \in RangeFields, cl \in LengthFields}

InitMeta == Constructed /\ cacheNil /\ calc \in MetaInputs

ApplyEqual ==
    /\ calc.fn = "Equal" /\ ~calc.applied
    /\ calc' = [calc EXCEPT !.applied = TRUE,
                            !.out = <<Equal(calc.args[1], calc.args[2])>>]
    /\ UNCHANGED <<transport, view, opening, stores, ctx, paged>>

ApplyExtract ==
    /\ calc.fn = "extractMetadata" /\ ~calc.applied
    /\ calc' = [calc EXCEPT !.applied = TRUE,
                   !.out = <<ParsedLength(calc.args[1], calc.args[2])>>]
    /\ UNCHANGED <<transport, view, opening, stores, ctx, paged>>

NextMeta == ApplyEqual \/ ApplyExtract

SpecMeta == InitMeta /\ [][NextMeta]_vars

\* C23: Equal(a, b) is false exactly when, for ETag, Last-Modified or
\* Length, both sides have a value (a non-empty string, a Length > 0) and
\* the two values differ.
C23_EqualIsPermissive ==
    (calc.fn = "Equal" /\ calc.applied) =>
        LET a == calc.args[1]
            b == calc.args[2]
            clash == \/ a.ETag # "" /\ b.ETag # "" /\ a.ETag # b.ETag
                     \/ a.LastModified # "" /\ b.LastModified # ""
                            /\ a.LastModified # b.LastModified
                     \/ a.Length > 0 /\ b.Length > 0 /\ a.Length # b.Length
        IN calc.out = <<~clash>>

C23_Witness ==
    /\ calc.fn = "Equal" /\ calc.applied /\ calc.out = <<TRUE>>
    /\ calc.args[1].ETag = "" /\ calc.args[2].ETag = "v1"
    /\ calc.args[1].Length = 0 /\ calc.args[2].Length = N

\* C24: the Length is the total of Content-Range when that is a
\* non-negative integer, and in every other case what Content-Length
\* gives, also when Content-Range is set with a total that is "*",
\* negative or no number.
C24_LengthFallsBackToContentLength ==
    (calc.fn = "extractMetadata" /\ calc.applied) =>
        LET cr == calc.args[1]
            cl == calc.args[2]
        IN calc.out =
            <<IF cr.set /\ cr.parts = 2 /\ cr.num /\ cr.val >= 0
              THEN cr.val
              ELSE IF cl.set /\ cl.num THEN cl.val ELSE 0>>

(* ------------------------- MemoryBlockCache --------------------------- *)

\* The byte slices handed to Put.
Datas == {<<1, 1>>, <<2, 2>>, <<3>>}

\* The calls that change a cache.
CacheCall(name, block, v) == [name |-> name, block |-> block, v |-> v]

\* c.m[block] = v
With(c, block, v) ==
    [x \in (DOMAIN c) \cup {block} |-> IF x = block THEN v ELSE c[x]]

WithoutMutAll(c, block) == EmptyCache

\* delete(c.m, block)
Without(c, block) == [x \in (DOMAIN c) \ {block} |-> c[x]]

MemPut(block, v) ==
    /\ Len(memory.log) < MaxCacheOps
    /\ memory' = [memory EXCEPT
                    !.mem = With(memory.mem, block, v),
                    !.log = Append(memory.log, CacheCall("Put", block, v))]
    /\ UNCHANGED <<transport, view, opening, pure, mapping, ctx, paged>>

MemDelete(block) ==
    /\ Len(memory.log) < MaxCacheOps
    /\ memory' = [memory EXCEPT
                    !.mem = Without(memory.mem, block),
                    !.log = Append(memory.log,
                                   CacheCall("Delete", block, <<>>))]
    /\ UNCHANGED <<transport, view, opening, pure, mapping, ctx, paged>>

MemClear ==
    /\ Len(memory.log) < MaxCacheOps
    /\ memory' = [memory EXCEPT
                    !.mem = EmptyCache,
                    !.log = Append(memory.log, CacheCall("Clear", 0, <<>>))]
    /\ UNCHANGED <<transport, view, opening, pure, mapping, ctx, paged>>

\* v, ok := c.m[block]
MemGet(block) ==
    /\ memory' = [memory EXCEPT !.found =
                    [block |-> block,
                     v |-> IF block \in DOMAIN memory.mem
                           THEN memory.mem[block] ELSE <<>>,
                     ok |-> block \in DOMAIN memory.mem,
                     after |-> memory.log]]
    /\ UNCHANGED <<transport, view, opening, pure, mapping, ctx, paged>>

NextMem ==
    \/ \E block \in Slots, v \in Datas : MemPut(block, v)
    \/ \E block \in Slots : MemDelete(block)
    \/ MemClear
    \/ \E block \in Slots : MemGet(block)

InitMem == Init /\ cacheNil

SpecMem == InitMem /\ [][NextMem]_vars

\* The calls of a log that affect a block, and the last of them.
Affecting(calls, block) ==
    {k \in 1..Len(calls) :
        calls[k].name = "Clear" \/ calls[k].block = block}
LastOf(ks) == CHOOSE k \in ks : \A j \in ks : j <= k

\* C26: Get(i) on a MemoryBlockCache reports present iff the most recent of
\* the Put(i), Delete(i) and Clear calls before it was a Put, and then it
\* returns the bytes of that Put; calls on other blocks do not count.
C26_GetReturnsTheLatestPut ==
    LET get == memory.found IN
    get # NoGet =>
        LET ks == Affecting(get.after, get.block)
            put == ks # {} /\ get.after[LastOf(ks)].name = "Put"
        IN /\ get.ok = put
           /\ put => get.v = get.after[LastOf(ks)].v

C26_Witness ==
    LET get == memory.found IN
    /\ get.ok /\ get.block = 0 /\ get.v = <<2, 2>>
    /\ get.after = <<CacheCall("Put", 1, <<1, 1>>),
                     CacheCall("Put", 0, <<2, 2>>),
                     CacheCall("Delete", 1, <<>>)>>

(* -------------------------- MmapBlockCache ---------------------------- *)

\* The block numbers callers pass: those of the mapping and one beyond.
AnySlots == 0..NumSlots

OutOfRange(block) == block < 0 \/ block >= NumSlots

\* c.data[start:end] of a block.
BlockOf(d, block) == Slice(d, block * BS, (block + 1) * BS)

\* The bytes a call writes, one at a time: their number, and position and
\* value of the i-th (0-based).
Writes(j) == IF j.name = "Clear" THEN NumSlots * BS ELSE BS
WriteAt(j) == IF j.name = "Clear" THEN j.i ELSE j.block * BS + j.i
WriteOfMutNoFill(j) ==
    IF j.name = "Put" /\ j.i < Len(j.src) THEN j.src[j.i + 1]
    ELSE mapping.data[WriteAt(j) + 1]

WriteOf(j) ==
    IF j.name = "Put" /\ j.i < Len(j.src) THEN j.src[j.i + 1] ELSE 0

\* Put, Delete(block) and Clear up to their first write: the range check,
\* c.mu.Lock() and the change of the bitmap that comes before the writes.
MmapEnter(p, name, block, src) ==
    /\ mapping.job[p] = Idle /\ mapping.started < MaxCacheOps
    /\ IF name # "Clear" /\ OutOfRange(block)
       THEN mapping' = [mapping EXCEPT !.started = @ + 1]
       ELSE /\ mapping.lock = 0
            /\ mapping' = [mapping EXCEPT
                    !.started = @ + 1,
                    !.lock = p,
                    !.job[p] = [name |-> name, block |-> block,
                                src |-> src, i |-> 0],
                    !.valid = CASE name = "Clear" -> {}
                                [] name = "Delete" -> mapping.valid \ {block}
                                [] OTHER -> mapping.valid,
                    !.slice = [q \in Procs |->
                        LET sl == mapping.slice[q] IN
                        IF name = "Put" /\ sl.block = block
                        THEN [sl EXCEPT !.news = @ \cup {Padded(src)}]
                        ELSE sl]]
    /\ UNCHANGED <<transport, view, opening, pure, memory, ctx, paged>>

\* One byte of the copy or of the zeroing loop.
MmapWrite(p) ==
    /\ LET j == mapping.job[p] IN
        /\ j # Idle /\ j.i < Writes(j)
        /\ mapping' = [mapping EXCEPT !.data[WriteAt(j) + 1] = WriteOf(j),
                                      !.job[p].i = @ + 1]
    /\ UNCHANGED <<transport, view, opening, pure, memory, ctx, paged>>

\* The end of the call: c.valid.Set(block) of Put, and the deferred Unlock.
MmapLeave(p) ==
    /\ LET j == mapping.job[p] IN
        /\ j # Idle /\ j.i = Writes(j)
        /\ mapping' = [mapping EXCEPT
                        !.valid = IF j.name = "Put"
                                  THEN @ \cup {j.block} ELSE @,
                        !.lock = 0,
                        !.job[p] = Idle]
    /\ UNCHANGED <<transport, view, opening, pure, memory, ctx, paged>>

\* Get(block) under the read lock: c.data[start:end:end] when the bit is set.
MmapGet(p, block) ==
    /\ mapping.job[p] = Idle /\ mapping.lock = 0
    /\ ~OutOfRange(block) /\ block \in mapping.valid
    /\ mapping' = [mapping EXCEPT
                    !.slice[p] = [block |-> block,
                                  was |-> BlockOf(mapping.data, block),
                                  news |-> {}],
                    !.seen[p] = NotRead]
    /\ UNCHANGED <<transport, view, opening, pure, memory, ctx, paged>>

\* The caller reads the slice it was given: the bytes of the mapping now.
Look(p) ==
    /\ mapping.job[p] = Idle /\ mapping.slice[p] # NoSlice
    /\ mapping' = [mapping EXCEPT
                    !.seen[p] = BlockOf(mapping.data, mapping.slice[p].block)]
    /\ UNCHANGED <<transport, view, opening, pure, memory, ctx, paged>>

NextMmap ==
    \E p \in Procs :
        \/ \E block \in AnySlots, src \in Datas : MmapEnter(p, "Put", block, src)
        \/ \E block \in AnySlots : MmapEnter(p, "Delete", block, <<>>)
        \/ MmapEnter(p, "Clear", 0, <<>>)
        \/ MmapWrite(p)
        \/ MmapLeave(p)
        \/ \E block \in AnySlots : MmapGet(p, block)
        \/ Look(p)

SpecMmap == InitMem /\ [][NextMmap]_vars

\* C25: a goroutine reading a slice it got from Get, while others run Put,
\* Delete or Clear, reads the complete block it got or the complete block of
\* a Put made since, never a mixture and never partly zeroed bytes.
C25_SliceIsOldOrNew ==
    \A p \in Procs :
        mapping.seen[p] # NotRead =>
            mapping.seen[p] \in
                {mapping.slice[p].was} \cup mapping.slice[p].news

(* ------------------- sharing a fetch: results ------------------------- *)

\* The call of q went through group.Do without running the closure: it
\* joined a fetch in flight.
Joiner(q) == missing[q] # <<>> /\ sent[q] = <<>> /\ pc[q] \in {"rebuild", "done"}
\* The call of p ran the closure for the key q has.
LedFor(p, q) == p # q /\ sent[p] # <<>> /\ missing[p] # <<>> /\ Key(p) = Key(q)
\* The blocks of a list of missing blocks.
Range(list) == {list[i] : i \in 1..Len(list)}
\* The byte a successful call returned for position x of the resource.
Covers(p, x) == Start(req[p]) <= x /\ x - Start(req[p]) < Len(res[p].body)
ByteAt(p, x) == res[p].body[x - Start(req[p]) + 1]

\* Leader and joiner return the same bytes for the blocks fetched.
SameBytes ==
    \A p, q \in Procs :
        (/\ Joiner(q) /\ LedFor(p, q)
         /\ Done(p) /\ Ok(p) /\ Done(q) /\ Ok(q))
        => \A x \in 0..(N - 1) :
            (x \div BS \in Range(missing[p]) /\ Covers(p, x) /\ Covers(q, x))
                => ByteAt(p, x) = ByteAt(q, x)

C30_JoinerBodyIsWhole ==
    \A p, q \in Procs :
        (/\ ~cacheNil /\ Joiner(q) /\ LedFor(p, q)
         /\ Range(missing[p]) \subseteq Range(missing[q])
         /\ Range(missing[p]) # Range(missing[q])
         /\ Done(q) /\ Ok(q) /\ Cacheable(req[q]))
        => /\ \A b \in Needed(req[q]) : Has(cache, b)
           /\ Len(res[q].body) = End(req[q]) - Start(req[q]) + 1

(* ------------------------- cancellation ------------------------------- *)

\* Requests for whole blocks of the resource, each with its own context.
CancelRequests == {r \in SharedRequests : ~PassThrough(r)}

\* One RoundTrip per goroutine.
Once(p) == pc[p] = "idle" /\ Call(p, CancelRequests)

\* The caller's context is cancelled while the caller is inside group.Do,
\* waiting for the fetch or about to run it.
Cancel(p) ==
    /\ pc[p] \in {"wait", "fetch"} /\ ~cancelled[p]
    /\ cancelled' = [cancelled EXCEPT ![p] = TRUE]
    /\ UNCHANGED <<transport, view, opening, pure, stores, paged>>

NextCancel ==
    \E p \in Procs :
        \/ Once(p)
        \/ Cancel(p)
        \/ Scan(p)
        \/ Do(p)
        \/ Fetch(p)
        \/ Store(p)
        \/ Finish(p)
        \/ Rebuild(p)

SpecCancel == InitChange /\ [][NextCancel]_vars

\* C28: a caller whose context is cancelled while it waits for the fetch
\* of another caller returns a cancellation error, and it alone: a waiter
\* whose context is not cancelled does not get one, whichever other
\* request sharing the fetch was cancelled.
C28_CancelUnblocksOnlyTheWaiter ==
    \A q \in Procs :
        (Joiner(q) /\ Done(q))
        => (res[q].err = Canceled.err <=> cancelled[q])

(* ------------------------- UffdHTTPReader ----------------------------- *)

\* The pages of the mapping: r.PageSize is BS, r.mapLen the length N of the
\* file rounded up to whole pages.
Pages == 0..((N - 1) \div BS)
NoFault == 0 - 1

\* The page of a position of r.data.
PageOf(x) == x \div BS

\* The page indices handlePageFault may compute from a fault address: those
\* of the mapping, one before r.base and one at r.mapLen.
AnyPages == (0 - 1)..((N - 1) \div BS + 1)

\* r.File: an HTTPFile opened on the resource, without validators.
FileMeta == Metadata("", "", N)

\* Read has not been called.
NoRet == [len |-> 0, from |-> 0, n |-> 0, err |-> ""]

\* A first access to a page of the registered mapping, through Read or
\* through the slice Bytes returns: the kernel queues a fault for the fault
\* loop and the accessing goroutine waits. A message for an address outside
\* the mapping is one the handler has a check for.
Touch(page) ==
    /\ ~paged.panicked /\ paged.fatal = "" /\ paged.closing = ""
    /\ paged.region /\ paged.registered /\ paged.ufd
    /\ paged.fault = NoFault /\ paged.serving = NoFault
    /\ page \notin paged.pages
    /\ paged' = [paged EXCEPT !.fault = page]
    /\ UNCHANGED <<transport, view, opening, pure, stores, ctx>>

\* faultLoop: r.Uffd.ReadMsg() returns the queued fault (lines 141-155).
ReadMsg ==
    /\ ~paged.panicked /\ paged.fatal = ""
    /\ paged.ufd /\ paged.fault # NoFault /\ paged.serving = NoFault
    /\ paged' = [paged EXCEPT !.serving = paged.fault, !.fault = NoFault]
    /\ UNCHANGED <<transport, view, opening, pure, stores, ctx>>

\* The bytes handlePageFault has in buf after r.File.ReadAt returned n bytes
\* of body: the rest of the page stays zero.
PageBuf(body, n) == Padded(SubSeq(body, 1, n))

\* handlePageFault up to the filled buf (lines 163-218): the two range
\* checks, then nothing to read for a page at or beyond the file size, else
\* ReadAt for the bytes of the page that are in the file. ReadAt returns all
\* it was asked for with a nil error, so the loop ends after one call: on
\* nil, on EOF with what was read, and in log.Fatalf on any other error.
HandleFault ==
    /\ ~paged.panicked /\ paged.fatal = ""
    /\ paged.serving # NoFault /\ paged.pbuf = <<>>
    /\ LET page == paged.serving
           fileOffset == page * BS
           want == Min(BS, N - fileOffset)
           rq == ViewRequest(fileOffset, fileOffset + want - 1, NoValidators)
       IN IF page < 0 \/ page \notin Pages
          THEN paged' = [paged EXCEPT !.serving = NoFault]
          ELSE IF fileOffset >= FileMeta.Length
          THEN paged' = [paged EXCEPT !.pbuf = PageBuf(<<>>, 0)]
          ELSE \E a \in ViewAnswers(rq) :
                LET o == Outcome("HTTPFile", FileMeta, a, want, want) IN
                IF o[2] \in {"", "EOF"}
                THEN paged' = [paged EXCEPT
                                !.pbuf = PageBuf(a.body, o[1]),
                                !.asked = @ \cup {page}]
                ELSE paged' = [paged EXCEPT !.fatal = "ReadAt",
                                            !.asked = @ \cup {page}]
    /\ UNCHANGED <<transport, view, opening, pure, stores, ctx>>

\* r.Uffd.Copy of the page (lines 220-228): it fails, and log.Fatalf ends
\* the program, when the descriptor is closed, the range unregistered or
\* the region unmapped by then.
UffdCopy ==
    /\ ~paged.panicked /\ paged.fatal = ""
    /\ paged.serving # NoFault /\ paged.pbuf # <<>>
    /\ IF paged.ufd /\ paged.region /\ paged.registered
       THEN paged' = [paged EXCEPT
                !.pages = @ \cup {paged.serving},
                !.frames = [x \in DOMAIN @ \cup {paged.serving} |->
                              IF x = paged.serving THEN paged.pbuf ELSE @[x]],
                !.serving = NoFault,
                !.pbuf = <<>>]
       ELSE paged' = [paged EXCEPT !.fatal = "Copy",
                                   !.late = ~paged.ufd \/ ~paged.region]
    /\ UNCHANGED <<transport, view, opening, pure, stores, ctx>>

\* The error of Read after n bytes were copied and pos advanced
\* (lines 241-244).
ReadErrMutShortOnly(n, len, pos, size) == IF n < len THEN "EOF" ELSE ""

ReadErr(n, len, pos, size) == IF n < len \/ pos >= size THEN "EOF" ELSE ""

\* Read(p) with len(p) = len over pages that are filled (lines 233-245).
UffdRead(len) ==
    /\ ~paged.panicked /\ paged.fatal = "" /\ paged.closing = ""
    /\ paged.region /\ paged.fault = NoFault /\ paged.serving = NoFault
    /\ LET from == paged.upos
           n == Min(len, N - from)
       IN IF from >= N
          THEN paged' = [paged EXCEPT
                    !.ret = [len |-> len, from |-> from, n |-> 0,
                             err |-> "EOF"]]
          ELSE /\ \A x \in from..(from + n - 1) : PageOf(x) \in paged.pages
               /\ paged' = [paged EXCEPT
                    !.upos = from + n,
                    !.ret = [len |-> len, from |-> from, n |-> n,
                             err |-> ReadErr(n, len, from + n, N)]]
    /\ UNCHANGED <<transport, view, opening, pure, stores, ctx>>

\* Close is called.
CloseCall ==
    /\ ~paged.panicked /\ paged.fatal = ""
    /\ paged.closing = "" /\ paged.closes < MaxCloses
    /\ paged' = [paged EXCEPT !.closes = @ + 1, !.closing = "done"]
    /\ UNCHANGED <<transport, view, opening, pure, stores, ctx>>

\* close(r.done): closing a closed channel panics.
CloseDone ==
    /\ ~paged.panicked /\ paged.fatal = "" /\ paged.closing = "done"
    /\ paged' = IF paged.doneCh
                THEN [paged EXCEPT !.panicked = TRUE]
                ELSE [paged EXCEPT !.doneCh = TRUE, !.closing = "unregister"]
    /\ UNCHANGED <<transport, view, opening, pure, stores, ctx>>

\* _ = r.Uffd.Unregister(r.base, r.mapLen)
Unregister ==
    /\ ~paged.panicked /\ paged.fatal = "" /\ paged.closing = "unregister"
    /\ paged' = [paged EXCEPT !.registered = (@ /\ ~paged.ufd),
                              !.closing = "close"]
    /\ UNCHANGED <<transport, view, opening, pure, stores, ctx>>

\* _ = r.Uffd.Close()
CloseFd ==
    /\ ~paged.panicked /\ paged.fatal = "" /\ paged.closing = "close"
    /\ paged' = [paged EXCEPT !.ufd = FALSE, !.frees.ufd = @ + 1,
                              !.fault = NoFault, !.closing = "munmap"]
    /\ UNCHANGED <<transport, view, opening, pure, stores, ctx>>

\* return unix.Munmap(r.full)
Munmap ==
    /\ ~paged.panicked /\ paged.fatal = "" /\ paged.closing = "munmap"
    /\ paged' = [paged EXCEPT !.region = FALSE, !.frees.region = @ + 1,
                              !.pages = {}, !.frames = <<>>,
                              !.closing = ""]
    /\ UNCHANGED <<transport, view, opening, pure, stores, ctx>>

NextUffd ==
    \/ \E page \in AnyPages : Touch(page)
    \/ ReadMsg
    \/ HandleFault
    \/ UffdCopy
    \/ \E len \in BufLens : UffdRead(len)
    \/ CloseCall
    \/ CloseDone
    \/ Unregister
    \/ CloseFd
    \/ Munmap

SpecUffd == InitMem /\ [][NextUffd]_vars

\* C29: Close may be called again: the first call closes r.done and
\* releases the mapping and the descriptor, a later call does not panic and
\* releases neither again.
C29_CloseIsIdempotent ==
    /\ ~paged.panicked
    /\ paged.frees.ufd <= 1 /\ paged.frees.region <= 1
    /\ (paged.closes >= 1 /\ paged.closing = "")
        => /\ paged.doneCh /\ ~paged.ufd /\ ~paged.region
           /\ paged.frees.ufd = 1 /\ paged.frees.region = 1

(* ===================== the remaining transport claims ================== *)

\* The Range header names a start but no usable end: "bytes=s-", or
\* "bytes=s-e" with e < s.
EndMissing(h) == h.kind = "open" \/ (h.kind = "full" /\ h.e < h.s)

\* C31: a GET whose Range has an absent end, or an end below its start, is
\* served through the block cache over the blocks of [start, start + BS - 1]
\* and is not handed to the wrapped transport as it is; a GET whose Range
\* has no parsable start is handed over as it is.
C31_MissingEndIsSynthesized ==
    \A p \in Procs :
        (~cacheNil /\ Done(p) /\ req[p].method = "GET") =>
            /\ EndMissing(req[p].hdr)
                => /\ gets[p] > 0
                   /\ \A i \in 1..Len(sent[p]) :
                        sent[p][i].hdr = AlignedRange(missing[p])
                   /\ LastNeeded(req[p]) = (req[p].hdr.s + BS - 1) \div BS
            /\ req[p].hdr.kind = "bad"
                => sent[p] = <<req[p]>> /\ gets[p] = 0

PlainFetch(p) == FetchVia(p, "plain")

\* A lone caller on a transport whose origin ignores Range.
NextPlain ==
    \/ Call(1, Requests)
    \/ Repeat(1)
    \/ Forward(1)
    \/ Scan(1)
    \/ Do(1)
    \/ PlainFetch(1)
    \/ Store(1)
    \/ Finish(1)
    \/ Rebuild(1)

SpecPlain == InitChange /\ [][NextPlain]_vars

\* The pieces of BS bytes a body has.
NumPieces(body) == (Len(body) + BS - 1) \div BS
\* The call fetched and the closure has returned.
Fetched(p) == pc[p] \in {"finish", "rebuild", "done"} /\ resp[p] # NoAnswer

\* C32: a 200 answer to the aligned request is accepted: the pieces of its
\* body are written to the cache for the missing blocks, and the same request
\* issued again after a success makes no origin request; an answer with a
\* status other than 200 and 206 makes RoundTrip return an error.
C32_OkIsAcceptedAndCached ==
    \A p \in Procs :
        ~PassThrough(req[p]) =>
            /\ (Fetched(p) /\ resp[p] = PlainServe(version))
                => /\ doErr[p] = ""
                   /\ puts[p] = Min(Len(missing[p]), NumPieces(resp[p].body))
                   /\ \A i \in 1..puts[p] :
                        cache[missing[p][i]] = Piece(resp[p].body, i - 1)
            /\ (Done(p) /\ Repeated(p) /\ prev[p].err = "")
                => sent[p] = <<>>
            /\ (Done(p) /\ resp[p] # NoAnswer /\ resp[p].err = ""
                    /\ resp[p].status \notin {200, 206})
                => res[p].err # ""

\* What a goroutine inside RoundTrip does next without waiting for another
\* goroutine.
Advance(p) ==
    \/ Scan(p)
    \/ Do(p)
    \/ Fetch(p)
    \/ Store(p)
    \/ Finish(p)
    \/ Rebuild(p)

\* Requests that miss the same first block.
LiveRequests == {Get(FullRange(0, BS - 1))}

\* Concurrent callers of one request, each of which may call again.
NextLive == \E p \in Procs : Call(p, LiveRequests) \/ Repeat(p) \/ Advance(p)

\* The Go scheduler runs every goroutine that can run, and the wrapped
\* transport answers every request it is given (one Fetch step).
FairLive == \A p \in Procs : WF_vars(Advance(p))

SpecLive == InitChange /\ [][NextLive]_vars /\ FairLive

\* C33: every RoundTrip call returns: a caller inside RoundTrip, waiting on
\* the fetch of another caller or not, eventually has its result whether
\* the fetch succeeds or fails; and the group holds a key only while the
\* fetch for it is in progress, so a later miss can start a new one.
C33_EveryCallReturns ==
    /\ [](\A k \in DOMAIN group : Leading(group[k]) /\ Key(group[k]) = k)
    /\ \A p \in Procs : (pc[p] \notin {"idle", "done"}) ~> Done(p)

\* A caller that waited on a fetch which failed has returned the failure
\* of the caller that led it, and the key has left the group.
C33_Witness ==
    \E p, q \in Procs :
        /\ Joiner(q) /\ Done(q) /\ res[q].err # ""
        /\ LedFor(p, q) /\ Done(p) /\ res[p] = res[q]
        /\ DOMAIN group = {}

\* The split loop over a MmapBlockCache.
MmapStore(p) == StoreVia(p, "mmap")

\* A lone caller on a transport whose Cache is a MmapBlockCache.
NextMapped ==
    \/ Call(1, Requests)
    \/ Repeat(1)
    \/ Forward(1)
    \/ Scan(1)
    \/ Do(1)
    \/ Fetch(1)
    \/ MmapStore(1)
    \/ Finish(1)
    \/ Rebuild(1)

SpecMapped == InitChange /\ [][NextMapped]_vars

\* The last block of the resource and its length.
LastBlock == (N - 1) \div BS
NaturalLen == N - LastBlock * BS
\* The bytes the resource has from position x on.
Remaining(x) == IF x < N THEN N - x ELSE 0

\* C34: whichever cache is behind the transport, the last block of the
\* resource is held at its natural length, and a synthetic response is no
\* longer than the bytes the resource has from the requested start on.
C34_LastPieceKeepsItsLength ==
    /\ Has(cache, LastBlock) => Len(cache[LastBlock]) = NaturalLen
    /\ \A p \in Procs :
        (Done(p) /\ Ok(p) /\ ~PassThrough(req[p]))
        => Len(res[p].body) <= Remaining(Start(req[p]))

(* ------------------ MmapBlockCache, one goroutine ---------------------- *)

\* What Get(block) returns on the cache m (lines 293-304).
MmapGot(m, block) ==
    IF OutOfRange(block) \/ block \notin m.valid
    THEN [ok |-> FALSE, v |-> <<>>]
    ELSE [ok |-> TRUE, v |-> BlockOf(m.data, block)]

\* Get(block) returning (nil, false).
MmapAbsent(p, block) ==
    /\ mapping.job[p] = Idle /\ mapping.lock = 0
    /\ ~MmapGot(mapping, block).ok
    /\ mapping' = [mapping EXCEPT
                    !.slice[p] = [block |-> block, was |-> <<>>, news |-> {}],
                    !.seen[p] = NotRead]
    /\ UNCHANGED <<transport, view, opening, pure, memory, ctx, paged>>

\* One goroutine using the cache, one call after the other.
NextMmapSeq ==
    \/ \E block \in AnySlots, src \in Datas : MmapEnter(1, "Put", block, src)
    \/ \E block \in AnySlots : MmapEnter(1, "Delete", block, <<>>)
    \/ MmapEnter(1, "Clear", 0, <<>>)
    \/ MmapWrite(1)
    \/ MmapLeave(1)
    \/ \E block \in AnySlots : MmapGet(1, block)
    \/ \E block \in AnySlots : MmapAbsent(1, block)

SpecMmapSeq == InitMem /\ [][NextMmapSeq]_vars

Zeros == [i \in 1..BS |-> 0]
\* The step is the return of the call j.
Returns(j) == j # Idle /\ mapping'.job[1] = Idle
\* The step is a whole Put or Delete on a block outside the mapping.
Rejected ==
    mapping'.started = mapping.started + 1 /\ mapping'.job[1] = Idle
\* The step is a Get.
Gets == mapping'.started = mapping.started /\ mapping'.job = mapping.job

\* C35: when Put(i, d) returns, Get(i) is present with the BS bytes of d
\* followed by zeros; when Delete(i) or Clear returns, Get(i) is absent and
\* the slot is zero; Put and Delete on an index outside the mapping change
\* neither bytes nor bits; Get on such an index is absent; and every Get
\* returns what the bits and bytes of the cache say.
C35_MmapPutGetDelete ==
    [][LET j == mapping.job[1] IN
        /\ (Returns(j) /\ j.name = "Put")
            => MmapGot(mapping', j.block) = [ok |-> TRUE, v |-> Padded(j.src)]
        /\ (Returns(j) /\ j.name = "Delete")
            => /\ ~MmapGot(mapping', j.block).ok
               /\ BlockOf(mapping'.data, j.block) = Zeros
        /\ (Returns(j) /\ j.name = "Clear")
            => \A i \in Slots :
                /\ ~MmapGot(mapping', i).ok
                /\ BlockOf(mapping'.data, i) = Zeros
        /\ Rejected
            => mapping'.data = mapping.data /\ mapping'.valid = mapping.valid
        /\ Gets
            => LET sl == mapping'.slice[1] IN
                /\ sl.was = MmapGot(mapping, sl.block).v
                /\ (OutOfRange(sl.block) => sl.was = <<>>)
                /\ (sl.was # <<>> => Len(sl.was) = BS)
                /\ mapping'.data = mapping.data
    ]_vars

\* Get returned the slot of a short Put that replaced a longer one.
C35_Witness ==
    /\ mapping.slice[1].was = <<3, 0>>
    /\ mapping.started = 2 /\ mapping.job[1] = Idle

(* ---------------------- MmapBlockCache.Close --------------------------- *)

\* Close (lines 327-339): nothing when c.data is nil, else Munmap and
\* c.data = nil. The bitmap and numBlocks stay as they are.
MmapClose(p) ==
    /\ mapping.job[p] = Idle /\ mapping.lock = 0
    /\ mapping.started < MaxCacheOps
    /\ IF mapping.data = <<>>
       THEN mapping' = [mapping EXCEPT !.started = @ + 1]
       ELSE mapping' = [mapping EXCEPT !.started = @ + 1,
                                       !.data = <<>>,
                                       !.unmaps = @ + 1]
    /\ UNCHANGED <<transport, view, opening, pure, memory, ctx, paged>>

\* Put, Delete and Clear on a cache whose data is nil: the range check, the
\* change of the bitmap, then the first c.data[start:end] or c.data[start+i]
\* on the nil slice, which panics (out of range); Clear ranges over nothing.
ClosedCall(p, name, block, src) ==
    /\ mapping.data = <<>>
    /\ mapping.job[p] = Idle /\ mapping.lock = 0
    /\ mapping.started < MaxCacheOps
    /\ IF name # "Clear" /\ OutOfRange(block)
       THEN mapping' = [mapping EXCEPT !.started = @ + 1]
       ELSE mapping' = [mapping EXCEPT
                !.started = @ + 1,
                !.valid = CASE name = "Clear" -> {}
                            [] name = "Delete" -> mapping.valid \ {block}
                            [] OTHER -> mapping.valid,
                !.died = IF name = "Clear" THEN @
                         ELSE @ \cup {[name |-> name, block |-> block]}]
    /\ UNCHANGED <<transport, view, opening, pure, memory, ctx, paged>>

\* Get on a cache whose data is nil: absent when the bit is clear, else
\* c.data[start:end:end] on the nil slice, which panics.
ClosedGet(p, block) ==
    /\ mapping.data = <<>>
    /\ mapping.job[p] = Idle /\ mapping.lock = 0
    /\ IF ~OutOfRange(block) /\ block \in mapping.valid
       THEN mapping' = [mapping EXCEPT
                !.died = @ \cup {[name |-> "Get", block |-> block]}]
       ELSE mapping' = [mapping EXCEPT
                !.slice[p] = [block |-> block, was |-> <<>>, news |-> {}],
                !.seen[p] = NotRead]
    /\ UNCHANGED <<transport, view, opening, pure, memory, ctx, paged>>

\* One goroutine that uses the cache, closes it, and uses it again.
NextMmapClose ==
    \/ mapping.data # <<>> /\ NextMmapSeq
    \/ MmapClose(1)
    \/ \E block \in AnySlots, src \in Datas : ClosedCall(1, "Put", block, src)
    \/ \E block \in AnySlots : ClosedCall(1, "Delete", block, <<>>)
    \/ ClosedCall(1, "Clear", 0, <<>>)
    \/ \E block \in AnySlots : ClosedGet(1, block)

SpecMmapClose == InitMem /\ [][NextMmapClose]_vars

\* C40: once Close has unmapped the region every call returns normally, Get
\* with absent, and the region is unmapped once.
C40_ClosedCacheIsInert ==
    /\ mapping.died = {}
    /\ mapping.unmaps <= 1

(* ------------------ UffdHTTPReader: faults and Read -------------------- *)

\* The bytes of the resource that lie in a page, followed by zeros.
PageOfResource(page) ==
    Padded(Slice(Resource, Min(page * BS, N), Min((page + 1) * BS, N)))

\* C36: every page installed is a page of the mapping and holds the bytes
\* of the resource that lie in it followed by zeros; a page at or beyond the
\* length of the resource is installed without a read; a fault outside the
\* mapping installs nothing.
C36_InstalledPageIsResourcePage ==
    \A page \in paged.pages :
        /\ page \in Pages
        /\ paged.frames[page] = PageOfResource(page)
        /\ (page * BS >= N => page \notin paged.asked)

\* C37: no Copy is made after Close has closed the descriptor or unmapped
\* the region.
C37_NoCopyAfterClose == ~paged.late

\* C38: Read returns min(len(buf), size - pos) bytes and advances pos by as
\* many; (0, EOF) at the end; EOF whenever the read reaches the end, nil
\* only when bytes remain; and pos stays within 0..size.
C38_ReadCountsAndEOF ==
    LET r == paged.ret IN
    /\ 0 <= paged.upos /\ paged.upos <= N
    /\ r # NoRet =>
        /\ r.n = Min(r.len, N - r.from)
        /\ paged.upos = r.from + r.n
        /\ (r.from >= N => r.n = 0 /\ r.err = "EOF")
        /\ (r.from + r.n >= N => r.err = "EOF")
        /\ (r.err = "" => r.from + r.n < N)
        /\ r.err \in {"", "EOF"}

\* A Read that filled its buffer with the last bytes of the data and
\* returned EOF with them.
C38_Witness ==
    LET r == paged.ret IN
    r.len > 0 /\ r.n = r.len /\ r.from + r.n = N /\ r.err = "EOF"

(* ---------------------- Seek at the limits of int64 -------------------- *)

\* Offsets at and near the limits of the integer type.
SeekOffsets == {MinInt, 0 - 1, 1, MaxInt}

\* Two goroutines sharing a view, seeking far and reading.
NextSeek == Opens \/ \E p \in Procs : Cursor(p, {2}, SeekOffsets)

SpecSeek == InitFile /\ [][NextSeek]_vars

\* The sum Seek builds does not fit the integer type.
Overflows(c, cur, size) ==
    LET sum == CASE c.whence = SeekCurrent -> c.offset + cur
                 [] c.whence = SeekEnd -> c.offset + size
                 [] OTHER -> 0
    IN sum < MinInt \/ sum > MaxInt

\* C39: the cursor is never negative, and a Seek whose sum overflows
\* returns an error.
C39_CursorNeverNegative ==
    /\ off >= 0
    /\ \A p \in Procs :
        (Returned(p) /\ call[p].op = "Seek"
            /\ Overflows(call[p], at[p], meta.Length))
        => rerr[p] # "" /\ rn[p] = 0

====
